---- MODULE Spec2Model ----
(***************************************************************************)
(* Interval reconciliation engine (ProductivitySystem) and layered rule    *)
(* engine (ProductivityRules) of Monitoramento-De-Produtividade.           *)
(*                                                                         *)
(* Conventions of the model                                                *)
(*  - timestamps are integers, in seconds (the code compares Date values   *)
(*    in milliseconds; every threshold of the code is a whole number of    *)
(*    seconds);                                                            *)
(*  - confidence values are fixed-point, in thousandths (0.5 is 500);      *)
(*  - composite scores are fixed-point, in ten-thousandths;                *)
(*  - total_time (hours) is fixed-point, in 1/3600 h, so that the filler's *)
(*    gapSeconds / 3600 is the integer gapSeconds;                         *)
(*  - an absent numeric field is Undefined, an absent string field is      *)
(*    NoValue, an absent boolean flag is FALSE, an absent list is << >>;   *)
(*  - text that the code searches (activity codes, equipment names) is a   *)
(*    sequence of one-character strings.                                   *)
(***************************************************************************)
EXTENDS Integers, Sequences, FiniteSets, TLC

Undefined == 0 - 1
NoValue == "undefined"

Max(a, b) == IF a > b THEN a ELSE b
Abs(a) == IF a < 0 THEN 0 - a ELSE a

(***************************************************************************)
(* Text                                                                    *)
(***************************************************************************)
\* String.prototype.toLowerCase, on the letters that occur in the model
LowerChar(c) ==
    CASE c = "A" -> "a" [] c = "B" -> "b" [] c = "C" -> "c" [] c = "D" -> "d"
      [] c = "E" -> "e" [] c = "F" -> "f" [] c = "G" -> "g" [] c = "H" -> "h"
      [] c = "I" -> "i" [] c = "J" -> "j" [] c = "K" -> "k" [] c = "L" -> "l"
      [] c = "M" -> "m" [] c = "N" -> "n" [] c = "O" -> "o" [] c = "P" -> "p"
      [] c = "Q" -> "q" [] c = "R" -> "r" [] c = "S" -> "s" [] c = "T" -> "t"
      [] c = "U" -> "u" [] c = "V" -> "v" [] c = "W" -> "w" [] c = "X" -> "x"
      [] c = "Y" -> "y" [] c = "Z" -> "z" [] c = "Ã" -> "ã" [] c = "Ç" -> "ç"
      [] c = "Á" -> "á" [] c = "Õ" -> "õ" [] c = "É" -> "é"
      [] OTHER -> c

toLowerCase(s) == [i \in 1..Len(s) |-> LowerChar(s[i])]

\* String.prototype.includes
includes(s, sub) ==
    \E i \in 0..(Len(s) - Len(sub)) : SubSeq(s, i + 1, i + Len(sub)) = sub

(***************************************************************************)
(* ProductivityCore: configuration and status priorities                   *)
(***************************************************************************)
\* config.gapTolerance, seconds
gapTolerance == 60

\* overlapThreshold of resolveOverlapsAdvanced, seconds
overlapThreshold == 30

\* this.core.statusPriority[status] || 0
statusPriority(status) ==
    CASE status = "maintenance" -> 10
      [] status = "out_of_plant" -> 9
      [] status = "secondary_motor_on" -> 8
      [] status = "on" -> 7
      [] status = "running" -> 7
      [] status = "stopped" -> 6
      [] status = "off" -> 5
      [] status = "not_appropriated" -> 4
      [] status = "no_data" -> 3
      [] OTHER -> 0

\* ProductivityAnalytics.determineEquipmentGroup
determineEquipmentGroup(equipName) ==
    LET name == toLowerCase(equipName) IN
    IF includes(name, <<"a","l","t","a"," ","p","r","e","s","s","ã","o">>)
       \/ includes(name, <<"a","l","t","a"," ","p","r","e","s","s","a","o">>)
    THEN "Alta Pressão"
    ELSE IF includes(name, <<"b","a","i","x","a"," ","p","r","e","s","s","ã","o">>)
            \/ includes(name, <<"b","a","i","x","a"," ","p","r","e","s","s","a","o">>)
    THEN "Baixa Pressão"
    ELSE IF includes(name, <<"v","á","c","u","o">>) \/ includes(name, <<"v","a","c","u","o">>)
    THEN "Vácuo"
    ELSE IF includes(name, <<"c","a","m","i","n","h","ã","o">>)
            \/ includes(name, <<"c","a","m","i","n","h","a","o">>)
    THEN "Caminhões"
    ELSE IF includes(name, <<"e","s","c","a","v","a","d","e","i","r","a">>)
    THEN "Escavadeiras"
    ELSE "Outros"

(***************************************************************************)
(* Status records                                                          *)
(***************************************************************************)
\* a record of the status feed, as pushed into equipmentMap[...].status
RawStatus(st, title, s, e, tt, vc) ==
    [status |-> st, status_title |-> title, start |-> s, end |-> e,
     total_time |-> tt, vacancy_code |-> vc,
     confidence |-> Undefined, consolidated_count |-> Undefined,
     merged_sources |-> << >>, gap_filled |-> FALSE, gap_type |-> NoValue,
     anomaly_corrected |-> FALSE, original_status |-> NoValue,
     merge_type |-> NoValue, original_statuses |-> << >>]

\* (x.confidence || 0.5): undefined and 0 are falsy
ConfidenceOrDefault(c) == IF c = Undefined \/ c = 0 THEN 500 ELSE c

\* (parseFloat(x.total_time) || 0)
ParseFloatOrZero(t) == IF t = Undefined THEN 0 ELSE t

\* Math.round(t / 60000) * 60000, t in seconds: round half up to the minute
RoundToMinute(t) == ((t + 30) \div 60) * 60

(***************************************************************************)
(* ProductivitySystem: the per-asset reconciliation pipeline               *)
(***************************************************************************)
\* key of removeDuplicatesAdvanced: `${roundedStart}-${roundedEnd}-${status}-${vacancy_code}`
DedupKey(status) ==
    <<RoundToMinute(status.start), RoundToMinute(status.end), status.status, status.vacancy_code>>

\* status.total_time > existing.total_time (false when either side is undefined)
TotalTimeGreater(a, b) == a # Undefined /\ b # Undefined /\ a > b

\* removeDuplicatesAdvanced as a filter: the positions of statusList whose callback
\* returns true; seen maps a key to the total_time of the record stored under it
RECURSIVE DedupFilter(_, _, _, _)
DedupFilter(statusList, i, seen, kept) ==
    IF i > Len(statusList) THEN kept
    ELSE LET status == statusList[i]
             key == DedupKey(status)
         IN IF key \in DOMAIN seen
            THEN IF TotalTimeGreater(status.total_time, seen[key])
                 THEN DedupFilter(statusList, i + 1,
                                  [seen EXCEPT ![key] = status.total_time], Append(kept, i))
                 ELSE DedupFilter(statusList, i + 1, seen, kept)
            ELSE DedupFilter(statusList, i + 1,
                             seen @@ (key :> status.total_time), Append(kept, i))

removeDuplicatesAdvancedIdx(statusList) == DedupFilter(statusList, 1, << >>, << >>)

\* insert position x into the sorted position list idx, after every position whose
\* record does not start later (Array.prototype.sort is stable)
RECURSIVE InsertByStart(_, _, _)
InsertByStart(idx, x, statusList) ==
    IF idx = << >> THEN <<x>>
    ELSE IF statusList[idx[Len(idx)]].start <= statusList[x].start
         THEN Append(idx, x)
         ELSE Append(InsertByStart(SubSeq(idx, 1, Len(idx) - 1), x, statusList), idx[Len(idx)])

\* uniqueStatus.sort((a, b) => new Date(a.start) - new Date(b.start)), on positions
RECURSIVE SortByStartIdx(_, _)
SortByStartIdx(idx, statusList) ==
    IF idx = << >> THEN << >>
    ELSE InsertByStart(SortByStartIdx(SubSeq(idx, 1, Len(idx) - 1), statusList),
                       idx[Len(idx)], statusList)

\* getContextScore, in thousandths
getContextScore(status, equipmentGroup) ==
    CASE equipmentGroup = "Alta Pressão" /\ status = "stopped" -> 800
      [] equipmentGroup = "Alta Pressão" /\ status = "running" -> 900
      [] equipmentGroup = "Vácuo" /\ status = "secondary_motor_on" -> 900
      [] equipmentGroup = "Vácuo" /\ status = "maintenance" -> 700
      [] equipmentGroup = "Caminhões" /\ status = "running" -> 900
      [] equipmentGroup = "Caminhões" /\ status = "stopped" -> 300
      [] OTHER -> 500

\* score = priority * 0.6 + confidence * 0.3 + contextScore * 0.1, in ten-thousandths
CompositeScore(status, equipmentGroup) ==
    6000 * statusPriority(status.status)
    + 3 * ConfidenceOrDefault(status.confidence)
    + getContextScore(status.status, equipmentGroup)

\* resolveConflictTraditional
resolveConflictTraditional(status1, status2, strategy) ==
    LET priority1 == statusPriority(status1.status)
        priority2 == statusPriority(status2.status)
        duration1 == status1.end - status1.start
        duration2 == status2.end - status2.start
    IN CASE strategy = "priority" ->
              IF priority1 > priority2 THEN [status1 EXCEPT !.end = status2.end]
              ELSE status2
         [] strategy = "latest" -> status2
         [] strategy = "longest" ->
              IF duration1 > duration2 THEN [status1 EXCEPT !.end = status2.end]
              ELSE status2
         [] OTHER -> status2

\* detectPattern: no code of the repository writes the pattern_<equipment> cache
\* entry, so the default pattern is returned (confidence 0.5, weights 0.5 / 0.5)
detectPattern == [confidence |-> 500, weight1 |-> 5000, weight2 |-> 5000]

\* PriorityResolution with the scores compared on the 0-1 scale of the confidence:
\* a difference of up to 2.0 counts as close
PriorityResolution_wide(score1, score2) ==
    IF Abs(score1 - score2) > 20000
    THEN [action |-> "priority_enhanced",
          winner |-> IF score1 > score2 THEN "current" ELSE "new",
          weight1 |-> 0, weight2 |-> 0]
    ELSE [action |-> "merge_weighted", winner |-> NoValue,
          weight1 |-> score1, weight2 |-> score2]

\* the 'priority' case of resolveConflictAdvanced, from the two composite scores
PriorityResolution(score1, score2) ==
    IF Abs(score1 - score2) > 2000
    THEN [action |-> "priority_enhanced",
          winner |-> IF score1 > score2 THEN "current" ELSE "new",
          weight1 |-> 0, weight2 |-> 0]
    ELSE [action |-> "merge_weighted", winner |-> NoValue,
          weight1 |-> score1, weight2 |-> score2]

\* the switch of resolveConflictAdvanced, equipmentGroup being
\* determineEquipmentGroup(equipmentName). Under 'latest', 'longest' and an
\* unrecognized strategy the function returns resolveConflictTraditional's status
\* object, which has no action field: action is NoValue there
ResolutionInGroup(status1, status2, equipmentGroup, strategy) ==
    CASE strategy = "priority" ->
           PriorityResolution(CompositeScore(status1, equipmentGroup),
                              CompositeScore(status2, equipmentGroup))
      [] strategy = "intelligent" ->
           [action |-> IF detectPattern.confidence > 700
                       THEN "split_intelligent" ELSE "merge_weighted",
            winner |-> NoValue,
            weight1 |-> detectPattern.weight1, weight2 |-> detectPattern.weight2]
      [] OTHER -> [action |-> NoValue, winner |-> NoValue, weight1 |-> 0, weight2 |-> 0]

\* resolveConflictAdvanced: the resolution object
resolveConflictAdvanced(status1, status2, equipmentName, strategy) ==
    ResolutionInGroup(status1, status2, determineEquipmentGroup(equipmentName), strategy)

\* mergeStatusWithWeight; weight1 and weight2 as given (weights.statusN || 0.5).
\* normalizedWeight1 > normalizedWeight2 is decided exactly (w1 > w2, the total
\* being positive); the stored confidence is the larger normalized weight,
\* truncated to thousandths
mergeStatusWithWeight(status1, status2, w1, w2) ==
    LET weight1 == IF w1 = 0 THEN 5000 ELSE w1
        weight2 == IF w2 = 0 THEN 5000 ELSE w2
        totalWeight == weight1 + weight2
        chosenStatus == IF weight1 > weight2 THEN status1 ELSE status2
    IN [chosenStatus EXCEPT
          !.start = status1.start,
          !.end = status2.end,
          !.total_time = ParseFloatOrZero(status1.total_time) + ParseFloatOrZero(status2.total_time),
          !.confidence = (1000 * Max(weight1, weight2)) \div totalWeight,
          !.merge_type = "weighted",
          !.original_statuses = <<status1.status, status2.status>>]

\* hasOverlap of resolveOverlapsAdvanced
HasOverlap(current, status) ==
    status.start < current.end /\ (current.end - status.start) > overlapThreshold

\* the switch on resolution.action in resolveOverlapsAdvanced, for the record
\* status = acc.list[i]. acc = [list, current, resolved]: list is the input array,
\* whose record the priority_enhanced branch writes to when the new record wins
\* (status.confidence = ...). No code of the repository makes detectPattern return
\* a confidence above 0.7, so the split_intelligent case is never taken
ApplyResolution(acc, i, status, resolution, strategy) ==
    CASE resolution.action = "merge_weighted" ->
           [acc EXCEPT !.current = mergeStatusWithWeight(acc.current, status,
                                       resolution.weight1, resolution.weight2)]
      [] resolution.action = "priority_enhanced" /\ resolution.winner = "current" ->
           [acc EXCEPT !.current =
               [acc.current EXCEPT
                  !.confidence = ConfidenceOrDefault(acc.current.confidence) + 100,
                  !.end = IF status.end > acc.current.end THEN status.end
                          ELSE acc.current.end]]
      [] resolution.action = "priority_enhanced" /\ resolution.winner # "current" ->
           [acc EXCEPT
              !.list = [acc.list EXCEPT
                          ![i] = [status EXCEPT !.confidence =
                                     ConfidenceOrDefault(status.confidence) + 100]],
              !.current = [status EXCEPT !.confidence =
                             ConfidenceOrDefault(status.confidence) + 100]]
      [] OTHER ->
           [acc EXCEPT !.current = resolveConflictTraditional(acc.current, status, strategy)]

\* one iteration of the loop of resolveOverlapsAdvanced
OverlapStep(acc, i, equipmentName, strategy) ==
    IF HasOverlap(acc.current, acc.list[i])
    THEN ApplyResolution(acc, i, acc.list[i],
                         resolveConflictAdvanced(acc.current, acc.list[i],
                                                 equipmentName, strategy),
                         strategy)
    ELSE [acc EXCEPT !.resolved = Append(acc.resolved, acc.current),
                     !.current = acc.list[i]]

RECURSIVE ResolveOverlapsLoop(_, _, _, _)
ResolveOverlapsLoop(acc, i, equipmentName, strategy) ==
    IF i > Len(acc.list) THEN acc
    ELSE ResolveOverlapsLoop(OverlapStep(acc, i, equipmentName, strategy),
                             i + 1, equipmentName, strategy)

\* the value returned after the loop
OverlapsResult(acc) == [resolved |-> Append(acc.resolved, acc.current), list |-> acc.list]

\* resolveOverlapsAdvanced: [resolved: the returned array, list: the input array
\* after the call]
resolveOverlapsAdvanced(statusList, equipmentName, strategy) ==
    IF Len(statusList) <= 1 THEN [resolved |-> statusList, list |-> statusList]
    ELSE OverlapsResult(ResolveOverlapsLoop(
             [list |-> statusList, current |-> statusList[1], resolved |-> << >>],
             2, equipmentName, strategy))

\* ToleranceRule2 with running at the base tolerance instead of half of it
ToleranceRule2_runningBase(status) ==
    CASE status = "maintenance" -> gapTolerance * 6
      [] status = "running" -> gapTolerance * 2
      [] status = "stopped" -> gapTolerance * 4
      [] status = "off" -> gapTolerance * 3
      [] OTHER -> gapTolerance * 2

\* getAdaptiveTolerance, doubled (baseTimeout * 0.5 and * 1.5 stay integers)
ToleranceRule2(status) ==
    CASE status = "maintenance" -> gapTolerance * 6
      [] status = "running" -> gapTolerance
      [] status = "stopped" -> gapTolerance * 4
      [] status = "off" -> gapTolerance * 3
      [] OTHER -> gapTolerance * 2

getAdaptiveTolerance2(status1, status2) == Max(ToleranceRule2(status1), ToleranceRule2(status2))

compatibleGroups ==
    { {"running", "on", "working"}, {"stopped", "idle"},
      {"off", "not_appropriated"}, {"maintenance", "error"} }

areStatusesCompatible(status1, status2) ==
    \E group \in compatibleGroups : status1 \in group /\ status2 \in group

mergeStatusAdvanced(status1, status2) ==
    [status1 EXCEPT
       !.end = status2.end,
       !.total_time = ParseFloatOrZero(status1.total_time) + ParseFloatOrZero(status2.total_time),
       !.consolidated_count =
           (IF status1.consolidated_count = Undefined \/ status1.consolidated_count = 0
            THEN 1 ELSE status1.consolidated_count) + 1,
       !.confidence = IF ConfidenceOrDefault(status1.confidence) + 100 < 1000
                      THEN ConfidenceOrDefault(status1.confidence) + 100 ELSE 1000,
       !.merged_sources =
           Append(IF status1.merged_sources = << >> THEN <<status1.start>>
                  ELSE status1.merged_sources, status2.start)]

\* the merge condition of consolidateConsecutiveAdvanced
ShouldConsolidate(current, status) ==
    LET gapSeconds == status.start - current.end
        sameStatus == current.status = status.status
        sameStatusTitle == current.status_title = status.status_title
        withinTolerance == 2 * Abs(gapSeconds) <= getAdaptiveTolerance2(current.status, status.status)
        compatibleStatuses == areStatusesCompatible(current.status, status.status)
    IN (sameStatus /\ sameStatusTitle /\ withinTolerance)
       \/ (compatibleStatuses /\ Abs(gapSeconds) <= 30)

RECURSIVE ConsolidateLoop(_, _, _, _)
ConsolidateLoop(statusList, i, current, consolidated) ==
    IF i > Len(statusList) THEN Append(consolidated, current)
    ELSE IF ShouldConsolidate(current, statusList[i])
         THEN ConsolidateLoop(statusList, i + 1,
                              mergeStatusAdvanced(current, statusList[i]), consolidated)
         ELSE ConsolidateLoop(statusList, i + 1, statusList[i], Append(consolidated, current))

consolidateConsecutiveAdvanced(statusList) ==
    IF Len(statusList) <= 1 THEN statusList
    ELSE ConsolidateLoop(statusList, 2, statusList[1], << >>)

\* the lookup of chooseFillStatus, equipmentGroup being
\* determineEquipmentGroup(equipmentName) and ruleKey `${prev.status}-${next.status}`
FillRule(equipmentGroup, ruleKey) ==
    CASE equipmentGroup = "Alta Pressão" /\ ruleKey = <<"running", "stopped">> ->
           [status |-> "transitioning", title |-> "Transicionando",
            confidence |-> 800, type |-> "contextual"]
      [] equipmentGroup = "Alta Pressão" /\ ruleKey = <<"stopped", "running">> ->
           [status |-> "preparing", title |-> "Preparando",
            confidence |-> 800, type |-> "contextual"]
      [] equipmentGroup = "Caminhões" /\ ruleKey = <<"running", "stopped">> ->
           [status |-> "off", title |-> "Motor Desligado",
            confidence |-> 900, type |-> "contextual"]
      [] equipmentGroup = "Caminhões" /\ ruleKey = <<"stopped", "running">> ->
           [status |-> "preparing", title |-> "Preparando",
            confidence |-> 700, type |-> "contextual"]
      [] OTHER ->
           [status |-> "off", title |-> "Motor Desligado",
            confidence |-> 500, type |-> "default"]

chooseFillStatus(prevStatus, nextStatus, equipmentName) ==
    FillRule(determineEquipmentGroup(equipmentName), <<prevStatus.status, nextStatus.status>>)

\* the filler pushed by fillSmallGapsIntelligent between prev and next
\* (total_time: the code stores gapSeconds / 3600; the length of the gap is kept
\* here in seconds, the unit of total_time of every other record of the model)
FillerWith(prev, next, fillStatus) ==
    [prev EXCEPT
       !.status = fillStatus.status,
       !.status_title = fillStatus.title,
       !.start = prev.end,
       !.end = next.start,
       !.total_time = next.start - prev.end,
       !.gap_filled = TRUE,
       !.gap_type = fillStatus.type,
       !.confidence = fillStatus.confidence]

GapFiller(prev, next, equipmentName) ==
    FillerWith(prev, next, chooseFillStatus(prev, next, equipmentName))

\* the loop of fillSmallGapsIntelligent filling gaps up to the base tolerance only
RECURSIVE FillLoop_baseTolerance(_, _, _, _)
FillLoop_baseTolerance(statusList, i, filled, equipmentName) ==
    IF i > Len(statusList) THEN filled
    ELSE IF i < Len(statusList)
            /\ statusList[i + 1].start - statusList[i].end > 0
            /\ statusList[i + 1].start - statusList[i].end <= gapTolerance
         THEN FillLoop_baseTolerance(statusList, i + 1,
                       Append(Append(filled, statusList[i]),
                              GapFiller(statusList[i], statusList[i + 1], equipmentName)),
                       equipmentName)
         ELSE FillLoop_baseTolerance(statusList, i + 1, Append(filled, statusList[i]),
                                     equipmentName)

RECURSIVE FillLoop(_, _, _, _)
FillLoop(statusList, i, filled, equipmentName) ==
    IF i > Len(statusList) THEN filled
    ELSE IF i < Len(statusList)
            /\ statusList[i + 1].start - statusList[i].end > 0
            /\ statusList[i + 1].start - statusList[i].end <= gapTolerance * 2
         THEN FillLoop(statusList, i + 1,
                       Append(Append(filled, statusList[i]),
                              GapFiller(statusList[i], statusList[i + 1], equipmentName)),
                       equipmentName)
         ELSE FillLoop(statusList, i + 1, Append(filled, statusList[i]), equipmentName)

fillSmallGapsIntelligent(statusList, equipmentName) ==
    IF Len(statusList) <= 1 THEN statusList
    ELSE FillLoop(statusList, 1, << >>, equipmentName)

\* anomalousPatterns of isAnomalousSequence, maxDuration in seconds
anomalousPatterns ==
    { [prev |-> "running", current |-> "stopped", next |-> "running", maxDuration |-> 30],
      [prev |-> "off", current |-> "running", next |-> "off", maxDuration |-> 60],
      [prev |-> "maintenance", current |-> "running", next |-> "maintenance", maxDuration |-> 300] }

\* isAnomalousSequence with the threshold of the first pattern applied to all
isAnomalousSequence_oneThreshold(prev, current, next) ==
    LET duration == current.end - current.start
    IN \E pattern \in anomalousPatterns :
          /\ pattern.prev = prev.status
          /\ pattern.current = current.status
          /\ pattern.next = next.status
          /\ duration < 30

isAnomalousSequence(prev, current, next) ==
    LET duration == current.end - current.start
    IN \E pattern \in anomalousPatterns :
          /\ pattern.prev = prev.status
          /\ pattern.current = current.status
          /\ pattern.next = next.status
          /\ duration < pattern.maxDuration

\* findMostLikelyStatus([prev, next]): the first record whose status count exceeds
\* every count before it; with two records that is next when the statuses are
\* equal (count 2 > 1) and prev otherwise
findMostLikelyStatus(prev, next) ==
    LET mostLikely == IF next.status = prev.status THEN next ELSE prev
    IN [status |-> mostLikely.status,
        title |-> IF mostLikely.status_title = NoValue THEN mostLikely.status
                  ELSE mostLikely.status_title]

CorrectedWith(current, avgStatus) ==
    [current EXCEPT
       !.status = avgStatus.status,
       !.status_title = avgStatus.title,
       !.anomaly_corrected = TRUE,
       !.original_status = current.status,
       !.confidence = 600]

\* correctAnomalousSequence spreading prev instead of current
correctAnomalousSequence_spreadPrev(prev, current, next) ==
    [CorrectedWith(prev, findMostLikelyStatus(prev, next)) EXCEPT
       !.original_status = current.status]

correctAnomalousSequence(prev, current, next) ==
    CorrectedWith(current, findMostLikelyStatus(prev, next))

applyMLOptimizations(statusList) ==
    IF Len(statusList) < 3 THEN statusList
    ELSE [i \in 1..Len(statusList) |->
            IF i > 1 /\ i < Len(statusList)
               /\ isAnomalousSequence(statusList[i - 1], statusList[i], statusList[i + 1])
            THEN correctAnomalousSequence(statusList[i - 1], statusList[i], statusList[i + 1])
            ELSE statusList[i]]

\* the records after steps 3 to 6 of resolveStatusConflictsAdvanced, and the
\* input array after the run (each step's result is passed on as an argument)
StagesAfterFill(overlaps, consolidated, final) ==
    [list |-> overlaps.list,
     resolved |-> overlaps.resolved,
     consolidated |-> consolidated,
     final |-> final,
     mlOptimized |-> applyMLOptimizations(final)]

StagesAfterConsolidation(overlaps, consolidated, equipmentName) ==
    StagesAfterFill(overlaps, consolidated,
                    fillSmallGapsIntelligent(consolidated, equipmentName))

StagesAfterOverlaps(overlaps, equipmentName) ==
    StagesAfterConsolidation(overlaps, consolidateConsecutiveAdvanced(overlaps.resolved),
                             equipmentName)

PipelineStages(sortedList, equipmentName, strategy) ==
    StagesAfterOverlaps(resolveOverlapsAdvanced(sortedList, equipmentName, strategy),
                        equipmentName)

\* the records of statusList at the positions idx, in that order
AtPositions(statusList, idx) == [k \in 1..Len(idx) |-> statusList[idx[k]]]

\* statusList after a run: position sortedIdx[k] holds the k-th record of the sorted
\* array, which resolveOverlapsAdvanced may have written to; a record that
\* removeDuplicatesAdvanced dropped is untouched
WriteBack(statusList, sortedIdx, list) ==
    [p \in 1..Len(statusList) |->
       IF \E k \in 1..Len(sortedIdx) : sortedIdx[k] = p
       THEN list[CHOOSE k \in 1..Len(sortedIdx) : sortedIdx[k] = p]
       ELSE statusList[p]]

RunAfterStages(statusList, keptIdx, sortedIdx, stages) ==
    [statusList |-> WriteBack(statusList, sortedIdx, stages.list),
     uniqueStatus |-> AtPositions(statusList, keptIdx),
     sortedStatus |-> AtPositions(statusList, sortedIdx),
     resolvedStatus |-> stages.resolved,
     consolidatedStatus |-> stages.consolidated,
     finalStatus |-> stages.final,
     mlOptimizedStatus |-> stages.mlOptimized]

RunAfterSort(statusList, keptIdx, sortedIdx, equipmentName, strategy) ==
    RunAfterStages(statusList, keptIdx, sortedIdx,
                   PipelineStages(AtPositions(statusList, sortedIdx), equipmentName, strategy))

RunAfterDedup(statusList, keptIdx, equipmentName, strategy) ==
    RunAfterSort(statusList, keptIdx, SortByStartIdx(keptIdx, statusList),
                 equipmentName, strategy)

\* one call of resolveStatusConflictsAdvanced(statusList, equipmentName): its
\* locals, its return value (mlOptimizedStatus) and the input array afterwards
PipelineRun(statusList, equipmentName, strategy) ==
    IF statusList = << >>
    THEN [statusList |-> statusList, uniqueStatus |-> << >>, sortedStatus |-> << >>,
          resolvedStatus |-> << >>, consolidatedStatus |-> << >>, finalStatus |-> << >>,
          mlOptimizedStatus |-> << >>]
    ELSE RunAfterDedup(statusList, removeDuplicatesAdvancedIdx(statusList),
                       equipmentName, strategy)

(***************************************************************************)
(* Bounds and input universes                                              *)
(***************************************************************************)
\* longest status list of one asset
MaxLen == 3
\* number of processing runs that write to the retained records of one asset
MaxInputWrites == 2
\* most triplets of consecutive intervals in a sequence given to applyMLOptimizations
MaxTriplets == 2

\* intervals (start, end, in seconds) of the feed records: among them are overlaps
\* of 20 s (tolerated) and of 45 s and more (conflict; the next record inside the
\* current one, ending with it, or ending later), gaps of 0 s, 5 s, 45 s, 50 s
\* and 230 s, and durations on both sides of the anomaly thresholds
Intervals ==
    { <<0, 20>>, <<0, 70>>, <<20, 25>>, <<25, 600>>, <<70, 600>>, <<300, 600>> }

Statuses == {"running", "stopped", "off"}

StatusTitle(st) ==
    CASE st = "running" -> "Operando"
      [] st = "stopped" -> "Parado"
      [] st = "off" -> "Motor Desligado"
      [] st = "maintenance" -> "Manutenção"
      [] OTHER -> NoValue

\* feed records: the reported duration is the length of the interval
FeedRecords ==
    { RawStatus(st, StatusTitle(st), iv[1], iv[2], iv[2] - iv[1], "V1") :
        st \in Statuses, iv \in Intervals }

\* no record starts before its predecessor (unifyEquipmentDataBatch sorts data.status
\* by start; equal starts keep the order of arrival)
IsSortedByStart(l) == \A i \in 1..(Len(l) - 1) : l[i].start <= l[i + 1].start

\* Scenario A: running 10:00-10:30, stopped 10:20-10:45 (seconds of the day)
ScenarioA ==
    << RawStatus("running", "Operando", 36000, 37800, 1800, "V1"),
       RawStatus("stopped", "Parado", 37200, 38700, 1500, "V1") >>

\* Scenario D: running until 09:00:00, running again from 09:00:45
ScenarioD ==
    << RawStatus("running", "Operando", 28800, 32400, 3600, "V1"),
       RawStatus("running", "Operando", 32445, 36000, 3555, "V1") >>

\* Scenario E: running 09:00:00-09:00:20, stopped 09:00:20-09:00:25,
\* running 09:00:25-09:10:00
ScenarioE ==
    << RawStatus("running", "Operando", 32400, 32420, 20, "V1"),
       RawStatus("stopped", "Parado", 32420, 32425, 5, "V1"),
       RawStatus("running", "Operando", 32425, 33000, 575, "V1") >>

\* the lists of at most MaxLen records drawn from records that are sorted by start
SortedLists(records) ==
    UNION { { l \in [1..n -> records] : IsSortedByStart(l) } : n \in 0..MaxLen }

\* records whose start and end fall on either side of the half minute, with two
\* sources and two reported durations
DedupRecords ==
    { RawStatus(st, StatusTitle(st), s, 600, tt, vc) :
        st \in {"running", "stopped"}, s \in {0, 20, 40}, tt \in {10, 20},
        vc \in {"V1", "V2"} }

\* durations (seconds) on both sides of the thresholds 30 s, 60 s and 300 s
MLDurations == {5, 45, 300}

MLStatuses == {"running", "stopped", "off", "maintenance"}

\* the sum of the first n durations
RECURSIVE SumTo(_, _)
SumTo(durations, n) == IF n = 0 THEN 0 ELSE SumTo(durations, n - 1) + durations[n]

\* the gapless sequence, from time 0, of intervals with the given statuses and durations
ContiguousList(statuses, durations) ==
    [i \in 1..Len(statuses) |->
       RawStatus(statuses[i], StatusTitle(statuses[i]),
                 SumTo(durations, i - 1), SumTo(durations, i), durations[i], "V1")]

EquipmentNames ==
    { <<"C","a","m","i","n","h","ã","o"," ","0","1">>,
      <<"B","o","m","b","a"," ","0","2">> }

Strategies == {"priority", "latest", "longest", "intelligent"}

(***************************************************************************)
(* State                                                                   *)
(***************************************************************************)
VARIABLES
    conflictResolution,   \* core.config.conflictResolution
    equipmentName,        \* the asset whose status list is processed
    statusList,           \* equipmentMap.get(equipmentName).status
    uniqueStatus,         \* locals of the last run of resolveStatusConflictsAdvanced
    sortedStatus,
    resolvedStatus,
    consolidatedStatus,
    finalStatus,
    mlOptimizedStatus,    \* its return value
    processed,            \* resolveStatusConflictsAdvanced has returned at least once
    inputWrites,          \* runs so far that changed a record of statusList
    rulesConfig,          \* ProductivityRules.rulesConfig
    ruleApplicationLog,   \* ProductivityRules.ruleApplicationLog
    ruleHistory,          \* ProductivityRules.ruleHistory
    lastCall,             \* the last call of applyIntelligentRules and what it returned
    defaultRules,         \* ProductivityRules.defaultRules
    tablesShared,         \* rulesConfig.telemetryRules and .appointmentRules are the
                          \* objects of defaultRules (rulesConfig = { ...defaultRules })
    isDirty,              \* ProductivityRules.isDirty
    loadPending,          \* loadSavedOrDefaultRules was started and has not completed
    githubFile,           \* the document of data/productivity-rules.json in the repository
    localStorage,         \* the items productivity_rules_v2 and productivity_rules_backup
    lastOp,               \* the operation of ProductivityRules that ran last, and its outcome
    lastSuggestions,      \* the array that suggestRulesForUnknownActivities returned last
    timers,               \* the interval timers that are running, by the method that set them
    ticks,                \* the callbacks of interval timers that have run so far
    destroyed,            \* ProductivitySystem.destroy has returned
    isUpdating,           \* ProductivitySystem.isUpdating
    syncs,                \* the calls of syncFromGitHub that entered its body: where each is
    runs,                 \* the calls of processDataWithConflictResolution: where each is
    csvData,              \* ProductivitySystem.csvData
    jsonData,             \* ProductivitySystem.jsonData
    csvDataHash,          \* ProductivitySystem.csvDataHash, as the data it is the hash of
    lastDataHash,         \* ProductivitySystem.lastDataHash, as the data it is the hash of
    equipmentMap,         \* the entry of the asset in ProductivitySystem.equipmentMap
    items,                \* ProductivitySystem.items
    processingStats,      \* ProductivitySystem.processingStats
    timeline              \* ProductivitySystem.timeline is set

\* the state of the reconciliation pipeline
pipelineVars ==
    <<conflictResolution, equipmentName, statusList, uniqueStatus, sortedStatus,
      resolvedStatus, consolidatedStatus, finalStatus, mlOptimizedStatus, processed,
      inputWrites>>

\* the state of the rule engine
rulesVars ==
    <<rulesConfig, ruleApplicationLog, ruleHistory, lastCall, defaultRules, tablesShared,
      isDirty, loadPending, githubFile, localStorage, lastOp, lastSuggestions>>

\* the state of ProductivitySystem and of the timers of the three modules
systemVars ==
    <<timers, ticks, destroyed, isUpdating, syncs, runs, csvData, jsonData, csvDataHash,
      lastDataHash, equipmentMap, items, processingStats, timeline>>

vars == <<pipelineVars, rulesVars, systemVars>>

(***************************************************************************)
(* ProductivityRules: the layered classification                           *)
(***************************************************************************)
\* this.rulesConfig = null
NullRules == [null |-> TRUE]

\* JavaScript values given as activity: a string, null, or a number; text is
\* String(value), the property name the value is converted to in obj[value]
Str(text) == [type |-> "string", text |-> text]
JsNull == [type |-> "null", text |-> <<"n","u","l","l">>]
JsNumber(text) == [type |-> "number", text |-> text]

\* an exception thrown (a TypeError in every case of the model)
TypeError == "TypeError"
\* a function object inherited from Object.prototype
NativeFunction == "function"

ObjectPrototypeKeys == { <<"c","o","n","s","t","r","u","c","t","o","r">> }

\* obj[key] on a plain object: the own property, else the property inherited from
\* Object.prototype, else undefined
Get(obj, key) ==
    IF key \in DOMAIN obj THEN obj[key]
    ELSE IF key \in ObjectPrototypeKeys THEN NativeFunction
    ELSE NoValue

\* the value converts to true
Truthy(value) == value # NoValue /\ value # ""

\* a section that a rules document does not have
Absent == [absent |-> TRUE]

\* this.statusDefinitions, in the order of its keys: status, display name, class
statusDefinitions ==
    << [status |-> <<"r","u","n","n","i","n","g">>,
        name |-> <<"O","p","e","r","a","n","d","o">>,
        defaultClassification |-> "productive"],
       [status |-> <<"o","n">>,
        name |-> <<"M","o","t","o","r"," ","L","i","g","a","d","o">>,
        defaultClassification |-> "productive"],
       [status |-> <<"w","o","r","k","i","n","g">>,
        name |-> <<"T","r","a","b","a","l","h","a","n","d","o">>,
        defaultClassification |-> "productive"],
       [status |-> <<"s","t","o","p","p","e","d">>,
        name |-> <<"P","a","r","a","d","o">>,
        defaultClassification |-> "neutral"],
       [status |-> <<"i","d","l","e">>,
        name |-> <<"I","n","a","t","i","v","o">>,
        defaultClassification |-> "neutral"],
       [status |-> <<"o","f","f">>,
        name |-> <<"M","o","t","o","r"," ","D","e","s","l","i","g","a","d","o">>,
        defaultClassification |-> "non-productive"],
       [status |-> <<"m","a","i","n","t","e","n","a","n","c","e">>,
        name |-> <<"M","a","n","u","t","e","n","ç","ã","o">>,
        defaultClassification |-> "non-productive"],
       [status |-> <<"o","u","t","_","o","f","_","p","l","a","n","t">>,
        name |-> <<"F","o","r","a"," ","d","a"," ","P","l","a","n","t","a">>,
        defaultClassification |-> "non-productive"],
       [status |-> <<"e","r","r","o","r">>,
        name |-> <<"E","r","r","o">>,
        defaultClassification |-> "non-productive"],
       [status |-> <<"s","e","c","o","n","d","a","r","y","_","m","o","t","o","r","_","o","n">>,
        name |-> <<"M","o","t","o","r"," ","S","e","c","u","n","d","á","r","i","o">>,
        defaultClassification |-> "productive"],
       [status |-> <<"n","o","t","_","a","p","p","r","o","p","r","i","a","t","e","d">>,
        name |-> <<"N","ã","o"," ","A","p","r","o","p","r","i","a","d","o">>,
        defaultClassification |-> "neutral"],
       [status |-> <<"n","o","_","d","a","t","a">>,
        name |-> <<"S","e","m"," ","D","a","d","o","s">>,
        defaultClassification |-> "neutral"] >>

\* this.appointmentDefinitions, in the order of its keys
appointmentDefinitions ==
    << [appointment |-> <<"D","o","c","u","m","e","n","t","a","ç","ã","o">>,
        name |-> <<"D","o","c","u","m","e","n","t","a","ç","ã","o">>,
        defaultClassification |-> "productive"],
       [appointment |-> <<"P","r","e","p","a","r","a","ç","ã","o">>,
        name |-> <<"P","r","e","p","a","r","a","ç","ã","o">>,
        defaultClassification |-> "productive"],
       [appointment |-> <<"A","b","a","s","t","e","c","i","m","e","n","t","o">>,
        name |-> <<"A","b","a","s","t","e","c","i","m","e","n","t","o">>,
        defaultClassification |-> "productive"],
       [appointment |-> <<"D","e","s","c","a","r","r","e","g","a","m","e","n","t","o">>,
        name |-> <<"D","e","s","c","a","r","r","e","g","a","m","e","n","t","o">>,
        defaultClassification |-> "productive"],
       [appointment |-> <<"M","a","n","u","t","e","n","ç","ã","o">>,
        name |-> <<"M","a","n","u","t","e","n","ç","ã","o">>,
        defaultClassification |-> "non-productive"],
       [appointment |-> <<"P","e","q","u","e","n","a","s"," ","m","a","n","u","t","e","n","ç","õ","e","s">>,
        name |-> <<"P","e","q","u","e","n","a","s"," ","M","a","n","u","t","e","n","ç","õ","e","s">>,
        defaultClassification |-> "non-productive"],
       [appointment |-> <<"B","l","o","q","u","e","i","o">>,
        name |-> <<"B","l","o","q","u","e","i","o">>,
        defaultClassification |-> "non-productive"],
       [appointment |-> <<"T","r","o","c","a"," ","d","e"," ","E","q","u","i","p","a","m","e","n","t","o">>,
        name |-> <<"T","r","o","c","a"," ","d","e"," ","E","q","u","i","p","a","m","e","n","t","o">>,
        defaultClassification |-> "non-productive"],
       [appointment |-> <<"R","e","f","e","i","ç","ã","o"," ","M","o","t","o","r","i","s","t","a">>,
        name |-> <<"R","e","f","e","i","ç","ã","o"," ","d","o"," ","M","o","t","o","r","i","s","t","a">>,
        defaultClassification |-> "neutral"],
       [appointment |-> <<"A","g","u","a","r","d","a","n","d","o">>,
        name |-> <<"A","g","u","a","r","d","a","n","d","o">>,
        defaultClassification |-> "neutral"],
       [appointment |-> <<"A","g","u","a","r","d","a","n","d","o"," ","Á","r","e","a">>,
        name |-> <<"A","g","u","a","r","d","a","n","d","o"," ","Á","r","e","a">>,
        defaultClassification |-> "neutral"],
       [appointment |-> <<"A","g","u","a","r","d","a","n","d","o"," ","s","e","m","á","f","o","r","o","/","c","a","n","c","e","l","a">>,
        name |-> <<"A","g","u","a","r","d","a","n","d","o"," ","S","e","m","á","f","o","r","o">>,
        defaultClassification |-> "neutral"],
       [appointment |-> <<"A","g","u","a","r","d","a","n","d","o"," ","c","a","r","r","e","t","a"," ","b","a","s","c","u","l","a","r">>,
        name |-> <<"A","g","u","a","r","d","a","n","d","o"," ","C","a","r","r","e","t","a">>,
        defaultClassification |-> "neutral"] >>

\* the customRules of this.groupDefinitions
groupDefinitions ==
    [groupKey \in {"alta-pressao", "baixa-pressao", "vacuo", "caminhoes", "escavadeiras"} |->
       CASE groupKey = "alta-pressao" ->
              (<<"s","t","o","p","p","e","d">> :> "productive")
              @@ (<<"A","g","u","a","r","d","a","n","d","o">> :> "productive")
         [] groupKey = "baixa-pressao" -> (<<"i","d","l","e">> :> "productive")
         [] groupKey = "vacuo" ->
              (<<"s","e","c","o","n","d","a","r","y","_","m","o","t","o","r","_","o","n">> :> "productive")
         [] groupKey = "caminhoes" ->
              (<<"A","g","u","a","r","d","a","n","d","o">> :> "non-productive")
              @@ (<<"s","t","o","p","p","e","d">> :> "non-productive")
         [] groupKey = "escavadeiras" -> (<<"s","t","o","p","p","e","d">> :> "neutral")]

generateTelemetryRules ==
    [status \in { statusDefinitions[i].status : i \in DOMAIN statusDefinitions } |->
       statusDefinitions[CHOOSE i \in DOMAIN statusDefinitions :
                            statusDefinitions[i].status = status].defaultClassification]

generateAppointmentRules ==
    [appointment \in { appointmentDefinitions[i].appointment :
                         i \in DOMAIN appointmentDefinitions } |->
       appointmentDefinitions[CHOOSE i \in DOMAIN appointmentDefinitions :
                                 appointmentDefinitions[i].appointment = appointment
                             ].defaultClassification]

generateGroupRules ==
    [groupKey \in DOMAIN groupDefinitions |->
       [overrides |-> groupDefinitions[groupKey], enabled |-> TRUE]]

\* the globalSettings of createIntelligentDefaultRules that the classification and
\* the validation read
defaultGlobalSettings ==
    [conflictResolution |-> "priority",
     confidenceThreshold |-> 800,
     defaultClassification |-> "neutral",
     enableGroupOverrides |-> TRUE,
     enableTimeBasedRules |-> TRUE,
     enableContextualRules |-> TRUE]

\* timeBasedRules of createIntelligentDefaultRules; 'HH:MM' is the minute of the day
defaultTimeBasedRules ==
    [businessHours |->
       [start |-> 6 * 60, end |-> 18 * 60,
        modifiers |-> (<<"A","g","u","a","r","d","a","n","d","o">> :> "non-productive")
                      @@ (<<"s","t","o","p","p","e","d">> :> "neutral")],
     nightShift |->
       [start |-> 18 * 60, end |-> 6 * 60,
        modifiers |-> (<<"R","e","f","e","i","ç","ã","o"," ","M","o","t","o","r","i","s","t","a">> :> "productive")
                      @@ (<<"s","t","o","p","p","e","d">> :> "productive")]]

defaultContextualRules ==
    [weatherDependent |->
       [enabled |-> TRUE,
        rainModifiers |-> (<<"A","g","u","a","r","d","a","n","d","o">> :> "neutral")
                          @@ (<<"s","t","o","p","p","e","d">> :> "neutral")],
     maintenanceWindows |->
       [enabled |-> TRUE,
        weeklyMaintenance |->
          [modifiers |-> (<<"M","a","n","u","t","e","n","ç","ã","o">> :> "neutral")
                         @@ (<<"P","e","q","u","e","n","a","s"," ","m","a","n","u","t","e","n","ç","õ","e","s">> :> "neutral")]]]

\* this.version
version == <<"2",".","0",".","0">>

\* metadata of createIntelligentDefaultRules: rulesCount (the texts and the time of
\* the last optimization are left out)
defaultMetadata ==
    [rulesCount |-> Cardinality(DOMAIN generateTelemetryRules)
                    + Cardinality(DOMAIN generateAppointmentRules)]

\* this.defaultRules as createIntelligentDefaultRules builds it
createIntelligentDefaultRules ==
    [version |-> version,
     telemetryRules |-> generateTelemetryRules,
     appointmentRules |-> generateAppointmentRules,
     groupSpecificRules |-> generateGroupRules,
     globalSettings |-> defaultGlobalSettings,
     timeBasedRules |-> defaultTimeBasedRules,
     contextualRules |-> defaultContextualRules,
     metadata |-> defaultMetadata]


\* this.rulesConfig.globalSettings[name] converts to true (a document's
\* globalSettings has the keys its author wrote)
SettingOn(name) ==
    /\ name \in DOMAIN rulesConfig.globalSettings
    /\ rulesConfig.globalSettings[name] = TRUE

\* a context argument of null
NullContext == [null |-> TRUE]

\* context = {}
EmptyContext == [timestamp |-> Undefined, equipmentGroup |-> NoValue, conditions |-> Absent]

\* applyTimeBasedRules; timeStr, the local 'HH:MM' of the timestamp, is the minute
\* of the day (zero-padded 'HH:MM' strings compare as their minutes do)
applyTimeBasedRules(activity, timeStr) ==
    IF rulesConfig.timeBasedRules = Absent THEN TypeError
    ELSE LET businessHours == rulesConfig.timeBasedRules.businessHours
             nightShift == rulesConfig.timeBasedRules.nightShift
         IN IF /\ timeStr >= businessHours.start /\ timeStr <= businessHours.end
               /\ Truthy(Get(businessHours.modifiers, activity.text))
            THEN Get(businessHours.modifiers, activity.text)
            ELSE IF /\ (timeStr >= nightShift.start \/ timeStr <= nightShift.end)
                    /\ Truthy(Get(nightShift.modifiers, activity.text))
            THEN Get(nightShift.modifiers, activity.text)
            ELSE NoValue

\* applyGroupOverrides
applyGroupOverrides(activity, equipmentGroup) ==
    IF rulesConfig.groupSpecificRules = Absent THEN TypeError
    ELSE IF equipmentGroup \notin DOMAIN rulesConfig.groupSpecificRules THEN NoValue
    ELSE LET groupConfig == rulesConfig.groupSpecificRules[equipmentGroup]
         IN IF ~groupConfig.enabled THEN NoValue
            ELSE IF Truthy(Get(groupConfig.overrides, activity.text))
            THEN Get(groupConfig.overrides, activity.text)
            ELSE NoValue

\* applyContextualRules
applyContextualRules(activity, conditions) ==
    IF rulesConfig.contextualRules = Absent THEN TypeError
    ELSE LET contextualRules == rulesConfig.contextualRules
         IN IF /\ contextualRules.weatherDependent.enabled
               /\ conditions.weather = "rain"
               /\ Truthy(Get(contextualRules.weatherDependent.rainModifiers, activity.text))
            THEN Get(contextualRules.weatherDependent.rainModifiers, activity.text)
            ELSE IF /\ contextualRules.maintenanceWindows.enabled
                    /\ conditions.isMaintenanceWindow
                    /\ Truthy(Get(contextualRules.maintenanceWindows.weeklyMaintenance.modifiers,
                                  activity.text))
            THEN Get(contextualRules.maintenanceWindows.weeklyMaintenance.modifiers,
                     activity.text)
            ELSE NoValue

\* the first definition, in key order, whose key or lower-cased name occurs in
\* activityLower; 0 when there is none
FirstStatusMatch(activityLower) ==
    IF \E i \in DOMAIN statusDefinitions :
          \/ includes(activityLower, statusDefinitions[i].status)
          \/ includes(activityLower, toLowerCase(statusDefinitions[i].name))
    THEN CHOOSE i \in DOMAIN statusDefinitions :
            /\ \/ includes(activityLower, statusDefinitions[i].status)
               \/ includes(activityLower, toLowerCase(statusDefinitions[i].name))
            /\ \A j \in 1..(i - 1) :
                  /\ ~includes(activityLower, statusDefinitions[j].status)
                  /\ ~includes(activityLower, toLowerCase(statusDefinitions[j].name))
    ELSE 0

FirstAppointmentMatch(activityLower) ==
    IF \E i \in DOMAIN appointmentDefinitions :
          \/ includes(activityLower, toLowerCase(appointmentDefinitions[i].appointment))
          \/ includes(activityLower, toLowerCase(appointmentDefinitions[i].name))
    THEN CHOOSE i \in DOMAIN appointmentDefinitions :
            /\ \/ includes(activityLower, toLowerCase(appointmentDefinitions[i].appointment))
               \/ includes(activityLower, toLowerCase(appointmentDefinitions[i].name))
            /\ \A j \in 1..(i - 1) :
                  /\ ~includes(activityLower,
                               toLowerCase(appointmentDefinitions[j].appointment))
                  /\ ~includes(activityLower, toLowerCase(appointmentDefinitions[j].name))
    ELSE 0

\* this.rulesConfig.globalSettings.defaultClassification || 'neutral'
DefaultClassificationOrNeutral ==
    IF /\ "defaultClassification" \in DOMAIN rulesConfig.globalSettings
       /\ Truthy(rulesConfig.globalSettings.defaultClassification)
    THEN rulesConfig.globalSettings.defaultClassification
    ELSE "neutral"

\* intelligentFallback: activity.toLowerCase() throws unless activity is a string
intelligentFallback(activity, activityType) ==
    IF activity.type # "string" THEN TypeError
    ELSE IF activityType = "status"
    THEN IF FirstStatusMatch(toLowerCase(activity.text)) # 0
         THEN statusDefinitions[FirstStatusMatch(toLowerCase(activity.text))].defaultClassification
         ELSE DefaultClassificationOrNeutral
    ELSE IF FirstAppointmentMatch(toLowerCase(activity.text)) # 0
         THEN appointmentDefinitions[FirstAppointmentMatch(toLowerCase(activity.text))
                                    ].defaultClassification
         ELSE DefaultClassificationOrNeutral

\* applyBaseRules that learns from the application log: an unmapped activity that
\* was classified before is taken as productive
applyBaseRules_fromLog(activity, activityType) ==
    LET ruleSet == IF activityType = "status" THEN rulesConfig.telemetryRules
                   ELSE rulesConfig.appointmentRules
    IN IF Truthy(Get(ruleSet, activity.text)) THEN Get(ruleSet, activity.text)
       ELSE IF \E i \in DOMAIN ruleApplicationLog : ruleApplicationLog[i].activity = activity
       THEN "productive"
       ELSE intelligentFallback(activity, activityType)

\* applyBaseRules
applyBaseRules(activity, activityType) ==
    LET ruleSet == IF activityType = "status" THEN rulesConfig.telemetryRules
                   ELSE rulesConfig.appointmentRules
    IN IF Truthy(Get(ruleSet, activity.text)) THEN Get(ruleSet, activity.text)
       ELSE intelligentFallback(activity, activityType)

\* steps 1 to 3 of evaluateRules: the class the layer returns, NoValue when
\* evaluation goes on to the next layer, TypeError when the step throws (a property
\* of a null context is read only when the layer's flag is set)
TimeBasedStep(activity, context) ==
    IF ~SettingOn("enableTimeBasedRules") THEN NoValue
    ELSE IF context = NullContext THEN TypeError
    ELSE IF context.timestamp = Undefined THEN NoValue
    ELSE applyTimeBasedRules(activity, context.timestamp)

GroupOverrideStep(activity, context) ==
    IF ~SettingOn("enableGroupOverrides") THEN NoValue
    ELSE IF context = NullContext THEN TypeError
    ELSE IF context.equipmentGroup = NoValue THEN NoValue
    ELSE applyGroupOverrides(activity, context.equipmentGroup)

ContextualStep(activity, context) ==
    IF ~SettingOn("enableContextualRules") THEN NoValue
    ELSE IF context = NullContext THEN TypeError
    ELSE IF context.conditions = Absent THEN NoValue
    ELSE applyContextualRules(activity, context.conditions)

\* evaluateRules with the group overrides consulted before the time windows
evaluateRules_groupFirst(activity, activityType, context) ==
    IF GroupOverrideStep(activity, context) # NoValue
    THEN GroupOverrideStep(activity, context)
    ELSE IF TimeBasedStep(activity, context) # NoValue
    THEN TimeBasedStep(activity, context)
    ELSE IF ContextualStep(activity, context) # NoValue
    THEN ContextualStep(activity, context)
    ELSE applyBaseRules(activity, activityType)

\* evaluateRules: the first layer that returns a value decides
evaluateRules(activity, activityType, context) ==
    IF TimeBasedStep(activity, context) # NoValue
    THEN TimeBasedStep(activity, context)
    ELSE IF GroupOverrideStep(activity, context) # NoValue
    THEN GroupOverrideStep(activity, context)
    ELSE IF ContextualStep(activity, context) # NoValue
    THEN ContextualStep(activity, context)
    ELSE applyBaseRules(activity, activityType)

\* getLastAppliedRuleSource
getLastAppliedRuleSource == "base"

\* capacity of ruleApplicationLog
logLimit == 1000

\* logRuleApplication: the log after the call (the entry's wall-clock timestamp is
\* left out)
logRuleApplication(activity, activityType, context, result) ==
    LET pushed == Append(ruleApplicationLog,
                         [activity |-> activity, activityType |-> activityType,
                          context |-> context, result |-> result,
                          ruleSource |-> getLastAppliedRuleSource])
    IN IF Len(pushed) > logLimit THEN Tail(pushed) ELSE pushed

\* a call of applyIntelligentRules as its caller sees it: returned is the value
\* returned (a string; it has no confidence property), threw tells that an
\* exception left the call (none does: the whole evaluation is inside the try),
\* rulesLoaded that the rules were loaded when the call was made
CallRecord(activity, activityType, context, returned) ==
    [activity |-> activity, activityType |-> activityType, context |-> context,
     returned |-> returned, confidence |-> Undefined, threw |-> FALSE,
     rulesLoaded |-> rulesConfig # NullRules]

\* the call ends with result: evaluateRules returned it, or threw
ReturnOrCatch(activity, activityType, context, result) ==
    IF result = TypeError
    THEN /\ lastCall' = CallRecord(activity, activityType, context, "neutral")
         /\ UNCHANGED ruleApplicationLog
    ELSE /\ lastCall' = CallRecord(activity, activityType, context, result)
         /\ ruleApplicationLog' = logRuleApplication(activity, activityType, context, result)

\* applyIntelligentRules(activity, activityType, context)
applyIntelligentRules(activity, activityType, context) ==
    /\ IF rulesConfig = NullRules
       THEN /\ lastCall' = CallRecord(activity, activityType, context, "neutral")
            /\ UNCHANGED ruleApplicationLog
       ELSE ReturnOrCatch(activity, activityType, context,
                          evaluateRules(activity, activityType, context))
    /\ lastOp' = "applyIntelligentRules"
    /\ UNCHANGED <<rulesConfig, ruleHistory, defaultRules, tablesShared, isDirty,
                   loadPending, githubFile, localStorage, lastSuggestions, pipelineVars,
                   systemVars>>

\* the char code of a character of a version string
CharCode(c) ==
    CASE c = "." -> 46 [] c = "0" -> 48 [] c = "1" -> 49 [] c = "2" -> 50
      [] c = "3" -> 51 [] c = "4" -> 52 [] c = "5" -> 53 [] c = "6" -> 54
      [] c = "7" -> 55 [] c = "8" -> 56 [] c = "9" -> 57 [] OTHER -> 0

\* a < b on strings
RECURSIVE StringLess(_, _)
StringLess(a, b) ==
    IF b = << >> THEN FALSE
    ELSE IF a = << >> THEN TRUE
    ELSE IF CharCode(Head(a)) # CharCode(Head(b)) THEN CharCode(Head(a)) < CharCode(Head(b))
    ELSE StringLess(Tail(a), Tail(b))

\* capacity of ruleHistory
historyLimit == 100

\* addToHistory(action, data): the history after the call (the entry's id, time and
\* data are left out)
addToHistory(history, action) ==
    LET pushed == Append(history, [action |-> action])
    IN IF Len(pushed) > historyLimit THEN Tail(pushed) ELSE pushed

\* migrateRulesVersion with the settings merged the other way round
\* ({ ...rules.globalSettings, ...this.defaultRules.globalSettings })
migrateRulesVersion_defaultsWin(rules) ==
    [rules EXCEPT
       !.version = version,
       !.groupSpecificRules = IF @ = Absent THEN generateGroupRules ELSE @,
       !.timeBasedRules = IF @ = Absent THEN defaultTimeBasedRules ELSE @,
       !.contextualRules = IF @ = Absent THEN defaultContextualRules ELSE @,
       !.metadata = IF @ = Absent THEN defaultMetadata ELSE @,
       !.globalSettings = defaultGlobalSettings @@ @]

\* migrateRulesVersion: the document after the call; a document without a version
\* has the version << >>
migrateRulesVersion(rules) ==
    [rules EXCEPT
       !.version = version,
       !.groupSpecificRules = IF @ = Absent THEN generateGroupRules ELSE @,
       !.timeBasedRules = IF @ = Absent THEN defaultTimeBasedRules ELSE @,
       !.contextualRules = IF @ = Absent THEN defaultContextualRules ELSE @,
       !.metadata = IF @ = Absent THEN defaultMetadata ELSE @,
       !.globalSettings = @ @@ defaultGlobalSettings]

validClassifications == {"productive", "non-productive", "neutral"}

\* the required fields of validateAndMigrateRules are there
HasRequiredFields(rules) ==
    /\ rules.telemetryRules # Absent
    /\ rules.appointmentRules # Absent
    /\ rules.globalSettings # Absent

NeedsMigration(rules) == rules.version = << >> \/ StringLess(rules.version, version)

\* validateAndMigrateRules(rules), rules being an object: whether it returns true,
\* the document afterwards (it is migrated in place) and whether it was migrated
validateAndMigrateRules(rules) ==
    IF ~HasRequiredFields(rules)
    THEN [valid |-> FALSE, rules |-> rules, migrated |-> FALSE]
    ELSE [valid |-> \A status \in DOMAIN rules.telemetryRules :
                       rules.telemetryRules[status] \in validClassifications,
          rules |-> IF NeedsMigration(rules) THEN migrateRulesVersion(rules) ELSE rules,
          migrated |-> NeedsMigration(rules)]

\* no document: the fetch failed, or nothing is stored under the key
NoDoc == [none |-> TRUE]

\* the outcome of reading one store
LoadFrom(doc) ==
    IF doc = NoDoc THEN [valid |-> FALSE, rules |-> doc, migrated |-> FALSE]
    ELSE validateAndMigrateRules(doc)

HistoryAfter(history, loaded) ==
    IF loaded.migrated THEN addToHistory(history, "migrated") ELSE history

\* loadSavedOrDefaultRules, started by the constructor and not awaited, completes:
\* githubDoc is the document of the repository file and savedDoc the one in
\* localStorage; { ...this.defaultRules } shares the tables of defaultRules
loadSavedOrDefaultRules(githubDoc, savedDoc) ==
    /\ loadPending
    /\ loadPending' = FALSE
    /\ IF LoadFrom(githubDoc).valid
       THEN /\ rulesConfig' = LoadFrom(githubDoc).rules
            /\ tablesShared' = FALSE
            /\ ruleHistory' = HistoryAfter(ruleHistory, LoadFrom(githubDoc))
       ELSE IF LoadFrom(savedDoc).valid
       THEN /\ rulesConfig' = LoadFrom(savedDoc).rules
            /\ tablesShared' = FALSE
            /\ ruleHistory' = HistoryAfter(HistoryAfter(ruleHistory, LoadFrom(githubDoc)),
                                           LoadFrom(savedDoc))
       ELSE /\ rulesConfig' = defaultRules
            /\ tablesShared' = TRUE
            /\ ruleHistory' = HistoryAfter(HistoryAfter(ruleHistory, LoadFrom(githubDoc)),
                                           LoadFrom(savedDoc))
    /\ lastOp' = "loadSavedOrDefaultRules"
    /\ UNCHANGED <<ruleApplicationLog, lastCall, defaultRules, isDirty, githubFile,
                   localStorage, lastSuggestions, pipelineVars,
                   systemVars>>

(***************************************************************************)
(* ProductivityRules: edits, learning and saving                           *)
(***************************************************************************)
\* table[key] = value
SetRule(table, key, value) ==
    IF table = Absent THEN (key :> value) ELSE (key :> value) @@ table

\* the fields that an edit writes
StoreState ==
    [rulesConfig |-> rulesConfig, defaultRules |-> defaultRules, isDirty |-> isDirty,
     ruleHistory |-> ruleHistory]

\* this.rulesConfig[targetRules][key] = value: the table written is the table of
\* defaultRules when rulesConfig is a shallow copy of it
WriteRule(store, targetRules, key, value) ==
    [store EXCEPT
       !.rulesConfig[targetRules] = SetRule(@, key, value),
       !.defaultRules[targetRules] = IF tablesShared THEN SetRule(@, key, value) ELSE @]

\* what no edit, scan or save touches
RulesFrame == UNCHANGED <<ruleApplicationLog, lastCall, loadPending, githubFile>>

\* what no edit, scan or save of ProductivityRules on its own touches
StoreFrame == RulesFrame /\ UNCHANGED <<pipelineVars, systemVars>>

\* updateRule(type, key, value)
updateRule(type, key, value) ==
    LET targetRules == IF type = "telemetry" \/ type = "status"
                       THEN "telemetryRules" ELSE "appointmentRules"
        after == WriteRule(StoreState, targetRules, key, value)
    IN /\ StoreFrame
       /\ UNCHANGED lastSuggestions
       /\ UNCHANGED <<tablesShared, localStorage>>
       /\ IF rulesConfig = NullRules
          THEN /\ lastOp' = "updateRule: no rules"
               /\ UNCHANGED <<rulesConfig, defaultRules, isDirty, ruleHistory>>
          ELSE /\ rulesConfig' = after.rulesConfig
               /\ defaultRules' = after.defaultRules
               /\ isDirty' = TRUE
               /\ ruleHistory' = addToHistory(ruleHistory, "updated")
               /\ lastOp' = "updateRule"

\* autoAddRule that writes the rule and leaves isDirty as it is
autoAddRule_noDirty(store, suggestion) ==
    [WriteRule(store,
               IF suggestion.type = "status" THEN "telemetryRules" ELSE "appointmentRules",
               suggestion.activity, suggestion.suggestedClassification)
       EXCEPT !.ruleHistory = addToHistory(@, "auto-added")]

\* autoAddRule(suggestion): the edited fields after the call
autoAddRule(store, suggestion) ==
    [WriteRule(store,
               IF suggestion.type = "status" THEN "telemetryRules" ELSE "appointmentRules",
               suggestion.activity, suggestion.suggestedClassification)
       EXCEPT !.isDirty = TRUE,
              !.ruleHistory = addToHistory(@, "auto-added")]

\* the keywords of calculateSuggestionConfidence, of all three classes
highConfidenceKeywords ==
    { <<"o","p","e","r","a","n","d","o">>,
      <<"t","r","a","b","a","l","h","a","n","d","o">>,
      <<"p","r","o","d","u","z","i","n","d","o">>,
      <<"d","o","c","u","m","e","n","t","a","ç","ã","o">>,
      <<"p","r","e","p","a","r","a","ç","ã","o">>,
      <<"p","a","r","a","d","o">>,
      <<"d","e","s","l","i","g","a","d","o">>,
      <<"m","a","n","u","t","e","n","ç","ã","o">>,
      <<"e","r","r","o">>,
      <<"b","l","o","q","u","e","i","o">>,
      <<"a","g","u","a","r","d","a","n","d","o">>,
      <<"r","e","f","e","i","ç","ã","o">>,
      <<"p","a","u","s","a">> }

\* calculateSuggestionConfidence, in thousandths
calculateSuggestionConfidence(activity) ==
    IF \E keyword \in highConfidenceKeywords : includes(toLowerCase(activity), keyword)
    THEN 900 ELSE 500

\* the suggestion that suggestRulesForUnknownActivities makes for one unknown
\* activity (the reasoning text is left out)
Suggestion(unknown) ==
    [activity |-> unknown.activity,
     type |-> unknown.type,
     suggestedClassification |-> intelligentFallback(Str(unknown.activity), unknown.type),
     confidence |-> calculateSuggestionConfidence(unknown.activity)]

\* the loop of suggestRulesForUnknownActivities that adds the suggestions of
\* confidence above 0.8
RECURSIVE AutoAddLoop(_, _, _)
AutoAddLoop(store, suggestions, i) ==
    IF i > Len(suggestions) THEN store
    ELSE AutoAddLoop(IF suggestions[i].confidence > 800
                     THEN autoAddRule(store, suggestions[i]) ELSE store,
                     suggestions, i + 1)

\* suggestRulesForUnknownActivities(unknownActivities), with rules loaded
suggestRulesForUnknownActivities(unknownActivities) ==
    LET suggestions == [i \in 1..Len(unknownActivities) |-> Suggestion(unknownActivities[i])]
        after == AutoAddLoop(StoreState, suggestions, 1)
    IN /\ rulesConfig # NullRules
       /\ rulesConfig' = after.rulesConfig
       /\ defaultRules' = after.defaultRules
       /\ isDirty' = after.isDirty
       /\ ruleHistory' = after.ruleHistory
       /\ lastOp' = "suggestRulesForUnknownActivities"
       /\ lastSuggestions' = suggestions
       /\ UNCHANGED <<tablesShared, localStorage>>
       /\ StoreFrame

\* analyzeAndOptimizeRules(equipmentData), equipmentData a Map of activitiesSeen
\* assets: with no asset it returns; otherwise building the analysis calls
\* this.generateOptimizationSuggestions, which the class does not define, and the
\* TypeError leaves the method before findUnknownActivities and before the
\* metadata is written
analyzeAndOptimizeRules(activitiesSeen) ==
    /\ lastOp' = IF activitiesSeen = 0 THEN "analyzeAndOptimizeRules: no data"
                  ELSE "analyzeAndOptimizeRules: TypeError"
    /\ UNCHANGED <<rulesConfig, defaultRules, isDirty, ruleHistory, tablesShared,
                   localStorage>>
    /\ StoreFrame
    /\ UNCHANGED lastSuggestions

\* resetToDefaults
resetToDefaults ==
    /\ rulesConfig' = defaultRules
    /\ tablesShared' = TRUE
    /\ isDirty' = TRUE
    /\ ruleHistory' = addToHistory(ruleHistory, "reset_to_defaults")
    /\ lastOp' = "resetToDefaults"
    /\ UNCHANGED <<defaultRules, localStorage>>
    /\ StoreFrame
    /\ UNCHANGED lastSuggestions

\* what localStorage.setItem does during one save: both writes succeed, or the
\* quota is exceeded at the backup, or at the rules
StorageOutcomes == {"ok", "backup fails", "rules fail"}

\* the backup item is written
BackupWritten(storage) == storage # "backup fails"

\* saveRules reaches its setItem and the item is written: the backup was written,
\* rulesConfig.metadata is there to take lastOptimization, and the write succeeds
RulesWritten(storage) ==
    /\ storage = "ok"
    /\ rulesConfig # NullRules
    /\ rulesConfig.metadata # Absent

\* rulesConfig after saveRules has set its version (the times are left out)
Stamped == [rulesConfig EXCEPT !.version = version]

\* the callback of startAutoSave: saveRulesWithBackup, whose writes happen before
\* its first suspension, then isDirty = false
saveOnTick(storage) ==
    /\ RulesFrame
    /\ UNCHANGED lastSuggestions
    /\ UNCHANGED <<defaultRules, tablesShared>>
    /\ IF ~isDirty
       THEN /\ lastOp' = "autoSave: not dirty"
            /\ UNCHANGED <<rulesConfig, isDirty, ruleHistory, localStorage>>
       ELSE /\ rulesConfig' = IF BackupWritten(storage) /\ rulesConfig # NullRules
                              THEN Stamped ELSE rulesConfig
            /\ localStorage' =
                 [productivity_rules_backup |->
                    IF BackupWritten(storage) THEN rulesConfig
                    ELSE localStorage.productivity_rules_backup,
                  productivity_rules_v2 |->
                    IF RulesWritten(storage) THEN Stamped
                    ELSE localStorage.productivity_rules_v2]
            /\ ruleHistory' = IF RulesWritten(storage)
                              THEN addToHistory(ruleHistory, "saved") ELSE ruleHistory
            /\ isDirty' = FALSE
            /\ lastOp' = IF RulesWritten(storage) THEN "autoSave: saved"
                          ELSE "autoSave: save failed"

\* the callback of startAutoSave where no ProductivitySystem listens to rulesSaved
autoSave(storage) == saveOnTick(storage) /\ UNCHANGED <<pipelineVars, systemVars>>

(***************************************************************************)
(* The reconciliation pipeline as a state machine                          *)
(***************************************************************************)
\* the rule engine as constructed: no rules loaded yet, nothing classified
NoCall == [activity |-> NoValue]

\* nothing stored under either key of localStorage
EmptyStorage == [productivity_rules_v2 |-> NoDoc, productivity_rules_backup |-> NoDoc]

\* the fields of ProductivityRules after the constructor: the defaults are built,
\* the load is started
Constructed ==
    /\ rulesConfig = NullRules
    /\ ruleApplicationLog = << >>
    /\ ruleHistory = << >>
    /\ lastCall = NoCall
    /\ defaultRules = createIntelligentDefaultRules
    /\ tablesShared = FALSE
    /\ isDirty = FALSE
    /\ loadPending = TRUE
    /\ lastOp = "constructor"
    /\ lastSuggestions = << >>

\* core.generateHash(data) is btoa(JSON.stringify(data)).slice(0, 32): 32 characters
\* of base64 stand for the first 24 bytes of the text, which lie within the first
\* record; kept as the first record, and as nothing for the empty list
generateHash(data) ==
    [of |-> IF data = << >> THEN << >> ELSE << data[1] >>, hashed |-> TRUE]

\* the hash fields before the first feed arrived
NoHash == [of |-> << >>, hashed |-> FALSE]

\* the entry of an asset that equipmentMap does not hold
NoEntry == [apontamentos |-> << >>, status |-> << >>, present |-> FALSE]

\* processingStats as the constructor and the start of a run set it (without
\* conflictsResolved and lastProcessingTime)
ResetStats(originalRecords) ==
    [duplicatesRemoved |-> 0, originalRecords |-> originalRecords, finalRecords |-> 0]

\* the fields of ProductivitySystem as its constructor sets them, before
\* initializeSystem, and no timer running
SystemNotStarted ==
    /\ timers = {}
    /\ ticks = 0
    /\ destroyed = FALSE
    /\ isUpdating = FALSE
    /\ syncs = << >>
    /\ runs = << >>
    /\ csvData = << >>
    /\ jsonData = << >>
    /\ csvDataHash = NoHash
    /\ lastDataHash = NoHash
    /\ equipmentMap = NoEntry
    /\ items = << >>
    /\ processingStats = ResetStats(0)
    /\ timeline = FALSE

RulesNotInUse ==
    /\ Constructed
    /\ githubFile = NoDoc
    /\ localStorage = EmptyStorage

Init ==
    /\ SystemNotStarted
    /\ conflictResolution = "priority"
    /\ equipmentName \in EquipmentNames
    /\ statusList \in SortedLists(FeedRecords) \cup {ScenarioA, ScenarioD, ScenarioE}
    /\ uniqueStatus = << >>
    /\ sortedStatus = << >>
    /\ resolvedStatus = << >>
    /\ consolidatedStatus = << >>
    /\ finalStatus = << >>
    /\ mlOptimizedStatus = << >>
    /\ processed = FALSE
    /\ inputWrites = 0
    /\ RulesNotInUse

\* ProductivityCore.updateConfig({ conflictResolution: value })
updateConfig(value) ==
    /\ ~processed
    /\ conflictResolution = "priority"
    /\ value # "priority"
    /\ conflictResolution' = value
    /\ UNCHANGED <<equipmentName, statusList, uniqueStatus, sortedStatus, resolvedStatus,
                   consolidatedStatus, finalStatus, mlOptimizedStatus, processed, inputWrites>>
    /\ UNCHANGED <<rulesVars, systemVars>>

\* the state after a run whose results are run
RunEffect(run) ==
    /\ statusList' = run.statusList
    /\ uniqueStatus' = run.uniqueStatus
    /\ sortedStatus' = run.sortedStatus
    /\ resolvedStatus' = run.resolvedStatus
    /\ consolidatedStatus' = run.consolidatedStatus
    /\ finalStatus' = run.finalStatus
    /\ mlOptimizedStatus' = run.mlOptimizedStatus
    /\ inputWrites' = IF run.statusList = statusList THEN inputWrites ELSE inputWrites + 1

\* resolveStatusConflictsAdvanced(data.status, equipName)
resolveStatusConflictsAdvanced ==
    /\ inputWrites < MaxInputWrites
    /\ RunEffect(PipelineRun(statusList, equipmentName, conflictResolution))
    /\ processed' = TRUE
    /\ UNCHANGED <<conflictResolution, equipmentName>>
    /\ UNCHANGED <<rulesVars, systemVars>>

Next ==
    \/ \E value \in Strategies : updateConfig(value)
    \/ resolveStatusConflictsAdvanced

Spec == Init /\ [][Next]_vars

(***************************************************************************)
(* removeDuplicatesAdvanced and applyMLOptimizations on their own inputs    *)
(***************************************************************************)
\* no run yet and the configuration as constructed
NothingProcessed ==
    /\ conflictResolution = "priority"
    /\ uniqueStatus = << >>
    /\ sortedStatus = << >>
    /\ resolvedStatus = << >>
    /\ consolidatedStatus = << >>
    /\ mlOptimizedStatus = << >>
    /\ processed = FALSE
    /\ inputWrites = 0
    /\ RulesNotInUse

\* the pipeline has not run
PipelineIdle ==
    /\ conflictResolution = "priority"
    /\ equipmentName = << >>
    /\ statusList = << >>
    /\ uniqueStatus = << >>
    /\ sortedStatus = << >>
    /\ resolvedStatus = << >>
    /\ consolidatedStatus = << >>
    /\ finalStatus = << >>
    /\ mlOptimizedStatus = << >>
    /\ processed = FALSE
    /\ inputWrites = 0

InitDedup ==
    /\ SystemNotStarted
    /\ NothingProcessed
    /\ equipmentName \in EquipmentNames
    /\ statusList \in SortedLists(DedupRecords)
    /\ finalStatus = << >>

\* const uniqueStatus = this.removeDuplicatesAdvanced(statusList)
removeDuplicatesAdvanced ==
    /\ ~processed
    /\ uniqueStatus' = AtPositions(statusList, removeDuplicatesAdvancedIdx(statusList))
    /\ processed' = TRUE
    /\ UNCHANGED <<conflictResolution, equipmentName, statusList, sortedStatus,
                   resolvedStatus, consolidatedStatus, finalStatus, mlOptimizedStatus,
                   inputWrites>>
    /\ UNCHANGED <<rulesVars, systemVars>>

NextDedup == removeDuplicatesAdvanced

SpecDedup == InitDedup /\ [][NextDedup]_vars

InitML ==
    /\ SystemNotStarted
    /\ NothingProcessed
    /\ equipmentName = <<"B","o","m","b","a"," ","0","2">>
    /\ statusList = << >>
    /\ \/ \E n \in 3..(MaxTriplets + 2) :
             \E statuses \in [1..n -> MLStatuses], durations \in [1..n -> MLDurations] :
                finalStatus = ContiguousList(statuses, durations)
       \/ finalStatus = ScenarioE

\* const mlOptimizedStatus = this.applyMLOptimizations(finalStatus, equipmentName)
mlOptimize ==
    /\ ~processed
    /\ mlOptimizedStatus' = applyMLOptimizations(finalStatus)
    /\ processed' = TRUE
    /\ UNCHANGED <<conflictResolution, equipmentName, statusList, uniqueStatus,
                   sortedStatus, resolvedStatus, consolidatedStatus, finalStatus,
                   inputWrites>>
    /\ UNCHANGED <<rulesVars, systemVars>>

NextML == mlOptimize

SpecML == InitML /\ [][NextML]_vars

(***************************************************************************)
(* fillSmallGapsIntelligent on its own inputs                              *)
(***************************************************************************)
\* gaps (seconds) between consecutive intervals: an overlap, none, the smallest,
\* the base tolerance and one more, twice the base tolerance and one more
Gaps == {0 - 20, 0, 1, gapTolerance, gapTolerance + 1, gapTolerance * 2, gapTolerance * 2 + 1}

\* assets of the groups Caminhões, Outros and Alta Pressão
FillEquipmentNames ==
    EquipmentNames \cup { <<"A","l","t","a"," ","P","r","e","s","s","ã","o"," ","0","3">> }

\* the start of interval n when each interval lasts 100 s and gaps[i] separates
\* interval i from interval i + 1
RECURSIVE StartAfterGaps(_, _)
StartAfterGaps(gaps, n) ==
    IF n = 1 THEN 0 ELSE StartAfterGaps(gaps, n - 1) + 100 + gaps[n - 1]

\* the sequence of 100 s intervals with the given statuses and gaps
SpacedList(statuses, gaps) ==
    [i \in 1..Len(statuses) |->
       RawStatus(statuses[i], StatusTitle(statuses[i]),
                 StartAfterGaps(gaps, i), StartAfterGaps(gaps, i) + 100, 100, "V1")]

InitFill ==
    /\ SystemNotStarted
    /\ conflictResolution = "priority"
    /\ statusList = << >>
    /\ uniqueStatus = << >>
    /\ sortedStatus = << >>
    /\ resolvedStatus = << >>
    /\ finalStatus = << >>
    /\ mlOptimizedStatus = << >>
    /\ processed = FALSE
    /\ inputWrites = 0
    /\ RulesNotInUse
    /\ equipmentName \in FillEquipmentNames
    /\ \E n \in 1..MaxLen :
          \E statuses \in [1..n -> Statuses], gaps \in [1..(n - 1) -> Gaps] :
             consolidatedStatus = SpacedList(statuses, gaps)

\* const finalStatus = this.fillSmallGapsIntelligent(consolidatedStatus, equipmentName)
fillGaps ==
    /\ ~processed
    /\ finalStatus' = fillSmallGapsIntelligent(consolidatedStatus, equipmentName)
    /\ processed' = TRUE
    /\ UNCHANGED <<conflictResolution, equipmentName, statusList, uniqueStatus,
                   sortedStatus, resolvedStatus, consolidatedStatus, mlOptimizedStatus,
                   inputWrites>>
    /\ UNCHANGED <<rulesVars, systemVars>>

NextFill == fillGaps

SpecFill == InitFill /\ [][NextFill]_vars

(***************************************************************************)
(* The rule engine as a state machine                                      *)
(***************************************************************************)
\* most logged classifications in one behaviour of SpecRules
MaxLogged == 1
\* most logged classifications in one behaviour of SpecRepeat
MaxCalls == 3

\* a stored document equal to the defaults but for its default class
DocProductiveDefault ==
    [createIntelligentDefaultRules EXCEPT !.globalSettings.defaultClassification = "productive"]

\* a stored document of the current version that has no timeBasedRules
DocNoTimeRules ==
    [DocProductiveDefault EXCEPT !.timeBasedRules = Absent]

\* a stored document of version 1.0.0: base mappings and a default class only
DocOld ==
    [version |-> <<"1",".","0",".","0">>,
     telemetryRules |-> generateTelemetryRules,
     appointmentRules |-> generateAppointmentRules,
     groupSpecificRules |-> Absent,
     globalSettings |-> [defaultClassification |-> "non-productive"],
     timeBasedRules |-> Absent,
     contextualRules |-> Absent,
     metadata |-> Absent]

\* a stored document with a class that validateAndMigrateRules rejects
DocInvalid ==
    [createIntelligentDefaultRules EXCEPT !.telemetryRules[<<"r","u","n","n","i","n","g">>] = "very-productive"]

\* a stored document whose group tables were edited: alta-pressao overrides
\* running, caminhoes is switched off
DocGroups ==
    [createIntelligentDefaultRules EXCEPT
       !.groupSpecificRules["alta-pressao"].overrides =
           (<<"r","u","n","n","i","n","g">> :> "non-productive") @@ @,
       !.groupSpecificRules["caminhoes"].enabled = FALSE]

StoredDocs == {NoDoc, DocProductiveDefault, DocNoTimeRules, DocOld, DocInvalid, DocGroups}

\* the contexts of the calls: none, null, and time of day (12:00, 18:00, 20:00),
\* group and weather in combination
Contexts ==
    { EmptyContext, NullContext,
      [EmptyContext EXCEPT !.timestamp = 12 * 60, !.equipmentGroup = "alta-pressao"],
      [EmptyContext EXCEPT !.timestamp = 20 * 60, !.equipmentGroup = "caminhoes"],
      [EmptyContext EXCEPT !.timestamp = 18 * 60, !.equipmentGroup = "alta-pressao"],
      [EmptyContext EXCEPT !.equipmentGroup = "alta-pressao"],
      [EmptyContext EXCEPT !.equipmentGroup = "caminhoes"],
      [EmptyContext EXCEPT !.conditions = [weather |-> "rain", isMaintenanceWindow |-> FALSE]] }

\* the activities of the calls, each with its activityType
Activities ==
    { <<Str(<<"s","t","o","p","p","e","d">>), "status">>,
      <<Str(<<"r","u","n","n","i","n","g">>), "status">>,
      <<Str(<<"m","a","i","n","t","e","n","a","n","c","e">>), "status">>,
      <<Str(<<"x","y","z","-","u","n","k","n","o","w","n">>), "status">>,
      <<Str(<<"A","g","u","a","r","d","a","n","d","o">>), "appointment">>,
      <<Str(<<"c","o","n","s","t","r","u","c","t","o","r">>), "status">>,
      <<JsNull, "status">> }

\* the calls that are repeated in SpecRepeat
RepeatedActivities ==
    { <<Str(<<"s","t","o","p","p","e","d">>), "status">>,
      <<Str(<<"x","y","z","-","u","n","k","n","o","w","n">>), "status">>,
      <<JsNull, "status">> }

RepeatedContexts ==
    { EmptyContext,
      [EmptyContext EXCEPT !.timestamp = 12 * 60, !.equipmentGroup = "alta-pressao"] }

\* the state after the constructor: defaults created, the load pending; the
\* repository file and localStorage hold what earlier sessions left there
InitRules ==
    /\ SystemNotStarted
    /\ PipelineIdle
    /\ Constructed
    /\ \E doc \in StoredDocs :
          \/ /\ githubFile = doc
             /\ localStorage = EmptyStorage
          \/ /\ githubFile = NoDoc
             /\ localStorage = [EmptyStorage EXCEPT !.productivity_rules_v2 = doc]

\* the pending load completes
LoadCompletes == loadSavedOrDefaultRules(githubFile, localStorage.productivity_rules_v2)

NextRules ==
    \/ LoadCompletes
    \/ /\ Len(ruleApplicationLog) < MaxLogged
       /\ \E a \in Activities, context \in Contexts :
             applyIntelligentRules(a[1], a[2], context)

SpecRules == InitRules /\ [][NextRules]_vars

NextRepeat ==
    \/ LoadCompletes
    \/ /\ Len(ruleApplicationLog) < MaxCalls
       /\ \E a \in RepeatedActivities, context \in RepeatedContexts :
             applyIntelligentRules(a[1], a[2], context)

SpecRepeat == InitRules /\ [][NextRepeat]_vars

(***************************************************************************)
(* The rule store as a state machine                                       *)
(***************************************************************************)
\* most edits (updateRule, resetToDefaults, learning scans) in one behaviour of
\* SpecStore
MaxEdits == 2

\* a stored document with an appointment class outside the three classes
DocInvalidAppointment ==
    [createIntelligentDefaultRules EXCEPT
       !.appointmentRules[<<"B","l","o","q","u","e","i","o">>] = "blocked"]

\* a stored document with a group override outside the three classes
DocInvalidOverride ==
    [createIntelligentDefaultRules EXCEPT
       !.groupSpecificRules["caminhoes"].overrides =
           (<<"s","t","o","p","p","e","d">> :> "parked") @@ @]

\* a stored document without globalSettings
DocNoSettings == [createIntelligentDefaultRules EXCEPT !.globalSettings = Absent]

\* a stored document of the current version without metadata
DocNoMetadata == [createIntelligentDefaultRules EXCEPT !.metadata = Absent]

StoreDocs ==
    {NoDoc, DocOld, DocInvalid, DocInvalidAppointment, DocInvalidOverride, DocNoSettings,
     DocNoMetadata}

\* the edits of updateRule: type, key and value
RuleEdits ==
    { <<"status", <<"r","u","n","n","i","n","g">>, "sometimes">>,
      <<"status", <<"x","y","z","-","u","n","k","n","o","w","n">>, "productive">>,
      <<"appointment", <<"x","y","z","-","u","n","k","n","o","w","n">>, "productive">> }

\* the lists that the learning scan is given: an activity without a keyword of
\* calculateSuggestionConfidence, and one with an appointment and a status that
\* have one
UnknownLists ==
    { << [type |-> "status", activity |-> <<"x","y","z","-","u","n","k","n","o","w","n">>] >>,
      << [type |-> "appointment", activity |-> <<"P","a","u","s","a"," ","l","o","n","g","a">>],
         [type |-> "status", activity |-> <<"x","y","z","-","u","n","k","n","o","w","n">>],
         [type |-> "status", activity |-> <<"E","q","u","i","p","a","m","e","n","t","o"," ","p","a","r","a","d","o">>] >> }

\* the edits made so far
Edits ==
    Cardinality({ i \in DOMAIN ruleHistory :
                    ruleHistory[i].action \in {"updated", "auto-added", "reset_to_defaults"} })

\* the documents that SpecStore finds in localStorage
SavedDocs == {NoDoc, DocOld, DocNoMetadata, DocInvalidAppointment}

InitStore ==
    /\ SystemNotStarted
    /\ PipelineIdle
    /\ Constructed
    /\ githubFile = NoDoc
    /\ \E savedDoc \in SavedDocs :
          localStorage = [EmptyStorage EXCEPT !.productivity_rules_v2 = savedDoc]

\* edits and scans, and the auto-save ticks between them
NextStore ==
    \/ LoadCompletes
    \/ /\ Edits < MaxEdits
       /\ \E edit \in RuleEdits : updateRule(edit[1], edit[2], edit[3])
    \/ /\ Edits < MaxEdits
       /\ \E unknownActivities \in UnknownLists :
             suggestRulesForUnknownActivities(unknownActivities)
    \/ /\ Edits < MaxEdits
       /\ resetToDefaults
    \/ \E storage \in StorageOutcomes : autoSave(storage)

SpecStore == InitStore /\ [][NextStore]_vars

\* classifications and learning scans on the loaded rules
InitLearn ==
    /\ SystemNotStarted
    /\ PipelineIdle
    /\ Constructed
    /\ githubFile \in {NoDoc, DocOld}
    /\ localStorage = EmptyStorage

NextLearn ==
    \/ LoadCompletes
    \/ /\ Len(ruleApplicationLog) < MaxLogged
       /\ \E a \in RepeatedActivities : applyIntelligentRules(a[1], a[2], EmptyContext)
    \/ \E activitiesSeen \in 0..1 : analyzeAndOptimizeRules(activitiesSeen)
    \/ /\ Edits < MaxEdits
       /\ \E unknownActivities \in UnknownLists :
             suggestRulesForUnknownActivities(unknownActivities)
    \/ /\ Edits < MaxEdits
       /\ \E edit \in RuleEdits : updateRule(edit[1], edit[2], edit[3])

SpecLearn == InitLearn /\ [][NextLearn]_vars

\* the load, from every pair of stored documents, and one classification
InitLoad ==
    /\ SystemNotStarted
    /\ PipelineIdle
    /\ Constructed
    /\ githubFile \in StoreDocs
    /\ \E savedDoc \in StoreDocs :
          localStorage = [EmptyStorage EXCEPT !.productivity_rules_v2 = savedDoc]

NextLoad ==
    \/ LoadCompletes
    \/ /\ ruleApplicationLog = << >>
       /\ applyIntelligentRules(Str(<<"B","l","o","q","u","e","i","o">>), "appointment", EmptyContext)

SpecLoad == InitLoad /\ [][NextLoad]_vars

(***************************************************************************)
(* Migration of stored documents                                           *)
(***************************************************************************)
\* a stored document without a version, otherwise the defaults
DocNoVersion == [createIntelligentDefaultRules EXCEPT !.version = << >>]

\* a stored document of version 1.5.0 with sections and settings of its own: the
\* business hours end at 17:00, caminhoes is switched off, the rule count is 7, and
\* of the settings only the threshold and the default class are there
DocOldEdited ==
    [createIntelligentDefaultRules EXCEPT
       !.version = <<"1",".","5",".","0">>,
       !.timeBasedRules.businessHours.end = 17 * 60,
       !.groupSpecificRules["caminhoes"].enabled = FALSE,
       !.metadata = [rulesCount |-> 7],
       !.globalSettings = [confidenceThreshold |-> 700, defaultClassification |-> "productive"]]

\* a stored document of version 1.0.0 that validateAndMigrateRules rejects after
\* migrating it
DocOldInvalid ==
    [DocOld EXCEPT !.telemetryRules[<<"r","u","n","n","i","n","g">>] = "very-productive"]

MigrateDocs ==
    {NoDoc, DocOld, DocNoVersion, DocOldEdited, DocOldInvalid, DocNoSettings, DocNoMetadata,
     DocNoTimeRules}

InitMigrate ==
    /\ SystemNotStarted
    /\ PipelineIdle
    /\ Constructed
    /\ githubFile \in MigrateDocs
    /\ \E savedDoc \in MigrateDocs :
          localStorage = [EmptyStorage EXCEPT !.productivity_rules_v2 = savedDoc]

NextMigrate == LoadCompletes

SpecMigrate == InitMigrate /\ [][NextMigrate]_vars

(***************************************************************************)
(* The learning scan under configured thresholds                           *)
(***************************************************************************)
\* stored documents with an auto-accept threshold of 0.95 and of 0.4
DocStrict ==
    [createIntelligentDefaultRules EXCEPT !.globalSettings.confidenceThreshold = 950]

DocLenient ==
    [createIntelligentDefaultRules EXCEPT !.globalSettings.confidenceThreshold = 400]

\* unknown activities: no keyword and no definition matches ('xyz-unknown'); a
\* keyword of calculateSuggestionConfidence alone ('Pausa longa', 'Bloqueio total'
\* as a status); a definition of intelligentFallback alone ('running fast',
\* 'Abastecimento 2'); both
ScanActivities ==
    { [type |-> "status", activity |-> <<"x","y","z","-","u","n","k","n","o","w","n">>],
      [type |-> "appointment", activity |-> <<"P","a","u","s","a"," ","l","o","n","g","a">>],
      [type |-> "status", activity |-> <<"r","u","n","n","i","n","g"," ","f","a","s","t">>],
      [type |-> "status", activity |-> <<"B","l","o","q","u","e","i","o"," ","t","o","t","a","l">>],
      [type |-> "appointment", activity |-> <<"A","b","a","s","t","e","c","i","m","e","n","t","o"," ","2">>],
      [type |-> "status", activity |-> <<"E","q","u","i","p","a","m","e","n","t","o"," ","p","a","r","a","d","o">>],
      [type |-> "appointment", activity |-> <<"B","l","o","q","u","e","i","o"," ","p","a","r","c","i","a","l">>] }

ScanLists == { <<unknown>> : unknown \in ScanActivities } \cup UnknownLists

InitScan ==
    /\ SystemNotStarted
    /\ PipelineIdle
    /\ Constructed
    /\ githubFile \in {NoDoc, DocStrict, DocLenient}
    /\ localStorage = EmptyStorage

NextScan ==
    \/ LoadCompletes
    \/ /\ Edits < MaxEdits
       /\ \E unknownActivities \in ScanLists :
             suggestRulesForUnknownActivities(unknownActivities)

SpecScan == InitScan /\ [][NextScan]_vars

(***************************************************************************)
(* ProductivitySystem: feeds, fetches and the stages of a processing run   *)
(***************************************************************************)
\* core.config.retryAttempts
retryAttempts == 3

\* most calls of syncFromGitHub that enter its body in one behaviour
MaxSyncs == 2

\* most calls of processDataWithConflictResolution in one behaviour
MaxRuns == 2

\* most callbacks of interval timers in one behaviour
MaxTicks == 2

\* the asset that both feeds report on
FeedEquipment == <<"B","o","m","b","a"," ","0","2">>

\* the record of the appointment feed ('Data Inicial', 'Data Final', in seconds,
\* and 'Categoria Demora')
Apontamento == [start |-> 0, end |-> 600, category |-> "Outros"]

\* what the repository holds when a fetch reads it
RemoteCsv == { << >>, <<Apontamento>> }

JsonShort == << RawStatus("running", "Operando", 0, 70, 70, "V1") >>

JsonLong ==
    << RawStatus("running", "Operando", 0, 70, 70, "V1"),
       RawStatus("stopped", "Parado", 70, 600, 530, "V1") >>

RemoteJson == {JsonShort, JsonLong}

\* what fetchCSVFromGitHub and fetchJSONFromGitHub resolve with: every failure of
\* the request or of the decoding is caught and becomes success = false
FetchResults(remote) ==
    { [success |-> TRUE, data |-> data] : data \in remote }
      \cup { [success |-> FALSE, data |-> << >>] }

\* fetchDataWithRetry at its first attempt
FirstAttempt == [attempt |-> 1, state |-> "fetching", data |-> << >>]

\* the promise of fetchDataWithRetry is settled
Settled(fetch) == fetch.state \in {"fulfilled", "rejected"}

\* fetchDataWithRetry when the attempt in flight resolves with result, and an attempt
\* is repeated whatever its number
fetchDataWithRetry_noLimit(fetch, result) ==
    IF result.success
    THEN [fetch EXCEPT !.state = "fulfilled", !.data = result.data]
    ELSE [fetch EXCEPT !.state = "delay"]

\* fetchDataWithRetry when the attempt in flight resolves with result: return it
\* when it succeeded, wait retryDelay before the next attempt, or leave the loop
\* after the last attempt and throw
fetchDataWithRetry(fetch, result) ==
    IF result.success
    THEN [fetch EXCEPT !.state = "fulfilled", !.data = result.data]
    ELSE IF fetch.attempt < retryAttempts
    THEN [fetch EXCEPT !.state = "delay"]
    ELSE [fetch EXCEPT !.state = "rejected"]

\* the body of syncFromGitHub up to Promise.allSettled
SyncEntered(caller) ==
    [caller |-> caller, csv |-> FirstAttempt, json |-> FirstAttempt, state |-> "fetching"]

\* what is left of a call of syncFromGitHub that has ended
SyncEnded(sync) ==
    [caller |-> sync.caller,
     csv |-> [attempt |-> 0, state |-> sync.csv.state, data |-> << >>],
     json |-> [attempt |-> 0, state |-> sync.json.state, data |-> << >>],
     state |-> "ended"]

\* the fields that a processing run reads and writes, and where the run is
SystemState ==
    [equipmentMap |-> equipmentMap, items |-> items, processingStats |-> processingStats,
     timeline |-> timeline, pc |-> "call"]

\* data.status.sort by start
SortedByStart(list) ==
    LET idx == SortByStartIdx([k \in 1..Len(list) |-> k], list)
    IN [k \in 1..Len(list) |-> list[idx[k]]]

\* start && end && start < end
ValidRange(record) == record.start < record.end

ApontItem(record) == [group |-> "apont", content |-> record.category,
                      start |-> record.start, end |-> record.end]

StatusItem(record) == [group |-> "status", content |-> record.status,
                       start |-> record.start, end |-> record.end]

\* the items that createTimelineItemsWithAdvancedConflictResolution adds for the
\* asset: its appointments, and its statuses as resolveStatusConflictsAdvanced
\* returned them
TimelineItems(apontamentos, resolved) ==
    LET validApont == SelectSeq(apontamentos, ValidRange)
        validStatus == SelectSeq(resolved, ValidRange)
    IN [k \in 1..Len(validApont) |-> ApontItem(validApont[k])]
         \o [k \in 1..Len(validStatus) |-> StatusItem(validStatus[k])]

\* the last statements of processDataWithConflictResolution
Finished(st) == [st EXCEPT !.pc = "done"]

\* after the loop over the assets: finalRecords, then ensureTimelineInitialization,
\* which creates the timeline and waits when there is none
FromTimeline(st) ==
    LET counted == [st EXCEPT !.processingStats.finalRecords = Len(st.items)]
    IN IF st.items = << >> \/ st.timeline THEN Finished(counted)
       ELSE [counted EXCEPT !.timeline = TRUE, !.pc = "timelineWait"]

\* createTimelineItemsWithAdvancedConflictResolution up to the yield after the
\* batch of assets
FromItems(st) ==
    IF ~st.equipmentMap.present THEN FromTimeline([st EXCEPT !.items = << >>])
    ELSE LET entry == st.equipmentMap
             run == PipelineRun(entry.status, FeedEquipment, conflictResolution)
         IN [st EXCEPT
               !.items = TimelineItems(entry.apontamentos, run.mlOptimizedStatus),
               !.equipmentMap.status = run.statusList,
               !.processingStats.duplicatesRemoved =
                   @ + Len(entry.status) - Len(run.uniqueStatus),
               !.processingStats.finalRecords = @ + Len(run.mlOptimizedStatus),
               !.pc = "itemsYield"]

\* createGroupsBatch up to the yield after the batch of assets
FromGroups(st) ==
    IF st.equipmentMap.present THEN [st EXCEPT !.pc = "groupsYield"] ELSE FromItems(st)

\* the end of unifyEquipmentDataBatch: the arrays of every asset are sorted
FromSort(st) ==
    FromGroups([st EXCEPT !.equipmentMap.apontamentos = SortedByStart(@),
                          !.equipmentMap.status = SortedByStart(@)])

\* the loop of unifyEquipmentDataBatch over this.jsonData, one batch, up to its yield
FromJsonLoop(st, jsonNow) ==
    IF jsonNow = << >> THEN FromSort(st)
    ELSE [st EXCEPT !.equipmentMap.status = @ \o jsonNow,
                    !.equipmentMap.present = TRUE,
                    !.pc = "jsonYield"]

\* the loop of unifyEquipmentDataBatch over this.csvData, one batch, up to its yield
FromCsvLoop(st, csvNow, jsonNow) ==
    IF csvNow = << >> THEN FromJsonLoop(st, jsonNow)
    ELSE [st EXCEPT !.equipmentMap.apontamentos = @ \o csvNow,
                    !.equipmentMap.present = TRUE,
                    !.pc = "csvYield"]

\* processDataWithConflictResolution from its call to its first suspension
processDataWithConflictResolution(st, csvNow, jsonNow) ==
    IF csvNow = << >> /\ jsonNow = << >> THEN [st EXCEPT !.pc = "returned"]
    ELSE FromCsvLoop([st EXCEPT !.processingStats = ResetStats(Len(jsonNow) + Len(csvNow)),
                                !.equipmentMap = NoEntry],
                     csvNow, jsonNow)

\* a suspended run from the end of its wait to its next suspension
Resume(st, jsonNow) ==
    CASE st.pc = "csvYield" -> FromJsonLoop(st, jsonNow)
      [] st.pc = "jsonYield" -> FromSort(st)
      [] st.pc = "groupsYield" -> FromItems(st)
      [] st.pc = "itemsYield" -> FromTimeline(st)
      [] st.pc = "timelineWait" -> Finished(st)

\* a run from a suspension to its end with nothing running in between
RECURSIVE RunToEnd(_, _)
RunToEnd(st, jsonNow) ==
    IF st.pc \in {"done", "returned"} THEN st ELSE RunToEnd(Resume(st, jsonNow), jsonNow)

(***************************************************************************)
(* ProductivitySystem as a state machine                                   *)
(***************************************************************************)
\* the fields that a processing run wrote
Apply(st) ==
    /\ equipmentMap' = st.equipmentMap
    /\ items' = st.items
    /\ processingStats' = st.processingStats
    /\ timeline' = st.timeline

\* the interval timers set by the constructors of the three modules and by
\* initializeSystem: startPerformanceMonitoring, startRealTimeMonitoring,
\* startAutoSave and updateSystemInfo
TimersAtStart == {"performanceMonitoring", "realTimeMonitoring", "autoSave", "systemInfo"}

\* the timers whose handle is kept: autoSyncInterval and autoSaveInterval
HandleKept == {"autoSync", "autoSave"}

\* the state when new ProductivitySystem() returns: initializeSystem has run up to
\* the suspension of the first syncFromGitHub, called by initGitHubSync
SystemStarted ==
    /\ timers = TimersAtStart
    /\ ticks = 0
    /\ destroyed = FALSE
    /\ isUpdating = TRUE
    /\ syncs = << SyncEntered("initGitHubSync") >>
    /\ runs = << >>
    /\ csvData = << >>
    /\ jsonData = << >>
    /\ csvDataHash = NoHash
    /\ lastDataHash = NoHash
    /\ equipmentMap = NoEntry
    /\ items = << >>
    /\ processingStats = ResetStats(0)
    /\ timeline = FALSE

\* no part of the pipeline model or of the rule engine changes
OnlySystem == UNCHANGED <<pipelineVars, rulesVars>>

\* the finally block of syncFromGitHub, and startGitHubAutoSync when initGitHubSync
\* awaited the call
EndSync(i, syncsNow) ==
    /\ syncs' = [syncsNow EXCEPT ![i] = SyncEnded(@)]
    /\ isUpdating' = FALSE
    /\ timers' = IF syncsNow[i].caller = "initGitHubSync"
                 THEN timers \cup {"autoSync"} ELSE timers

\* syncFromGitHub without its test of isUpdating
EnterSync_unguarded(caller) ==
    /\ isUpdating' = TRUE
    /\ syncs' = Append(syncs, SyncEntered(caller))
    /\ UNCHANGED <<timers, destroyed, runs, csvData, jsonData, csvDataHash, lastDataHash,
                   equipmentMap, items, processingStats, timeline>>

\* syncFromGitHub from its call to its first suspension
EnterSync(caller) ==
    IF isUpdating
    THEN UNCHANGED <<isUpdating, syncs, timers, destroyed, runs, csvData, jsonData,
                     csvDataHash, lastDataHash, equipmentMap, items, processingStats,
                     timeline>>
    ELSE /\ isUpdating' = TRUE
         /\ syncs' = Append(syncs, SyncEntered(caller))
         /\ UNCHANGED <<timers, destroyed, runs, csvData, jsonData, csvDataHash,
                        lastDataHash, equipmentMap, items, processingStats, timeline>>

\* syncFromGitHub called from the page
syncFromGitHub ==
    /\ Len(syncs) < MaxSyncs
    /\ EnterSync("manual")
    /\ UNCHANGED ticks
    /\ OnlySystem

\* the callback of the timer of startGitHubAutoSync
autoSyncTick ==
    /\ "autoSync" \in timers
    /\ ticks < MaxTicks
    /\ Len(syncs) < MaxSyncs
    /\ ticks' = ticks + 1
    /\ IF isUpdating
       THEN UNCHANGED <<isUpdating, syncs, timers, destroyed, runs, csvData, jsonData,
                        csvDataHash, lastDataHash, equipmentMap, items, processingStats,
                        timeline>>
       ELSE EnterSync("autoSync")
    /\ OnlySystem

\* the body of syncFromGitHub after Promise.allSettled: the feeds that arrived
\* replace the data when their hash is new, then the data are processed or the
\* call ends
AfterFetches(i, sync) ==
    LET csvOk == sync.csv.state = "fulfilled"
        jsonOk == sync.json.state = "fulfilled"
        csvNew == csvOk /\ generateHash(sync.csv.data) # csvDataHash
        jsonNew == jsonOk /\ generateHash(sync.json.data) # lastDataHash
        csvNow == IF csvNew THEN sync.csv.data ELSE csvData
        jsonNow == IF jsonNew THEN sync.json.data ELSE jsonData
        st == processDataWithConflictResolution(SystemState, csvNow, jsonNow)
        settled == [syncs EXCEPT ![i] = sync]
    IN /\ csvData' = csvNow
       /\ jsonData' = jsonNow
       /\ csvDataHash' = IF csvNew THEN generateHash(sync.csv.data) ELSE csvDataHash
       /\ lastDataHash' = IF jsonNew THEN generateHash(sync.json.data) ELSE lastDataHash
       /\ IF (csvOk \/ jsonOk) /\ (csvNew \/ jsonNew) /\ st.pc # "returned"
          THEN /\ Apply(st)
               /\ runs' = Append(runs, [origin |-> "sync", sync |-> i, pc |-> st.pc])
               /\ syncs' = [settled EXCEPT ![i].state = "processing"]
               /\ UNCHANGED <<isUpdating, timers>>
          ELSE /\ EndSync(i, settled)
               /\ UNCHANGED <<runs, equipmentMap, items, processingStats, timeline>>

\* the request of one attempt of fetchDataWithRetry completes
fetchSettles(i, feed, result) ==
    /\ syncs[i].state = "fetching"
    /\ syncs[i][feed].state = "fetching"
    /\ LET sync == [syncs[i] EXCEPT ![feed] = fetchDataWithRetry(@, result)]
       IN IF Settled(sync.csv) /\ Settled(sync.json)
          THEN AfterFetches(i, sync)
          ELSE /\ syncs' = [syncs EXCEPT ![i] = sync]
               /\ UNCHANGED <<isUpdating, timers, runs, csvData, jsonData, csvDataHash,
                              lastDataHash, equipmentMap, items, processingStats,
                              timeline>>
    /\ UNCHANGED <<ticks, destroyed>>
    /\ OnlySystem

\* retryDelay has passed: the next attempt of fetchDataWithRetry starts
retryAfterDelay(i, feed) ==
    /\ syncs[i].state = "fetching"
    /\ syncs[i][feed].state = "delay"
    /\ syncs' = [syncs EXCEPT ![i][feed].attempt = @ + 1, ![i][feed].state = "fetching"]
    /\ UNCHANGED <<timers, ticks, destroyed, isUpdating, runs, csvData, jsonData,
                   csvDataHash, lastDataHash, equipmentMap, items, processingStats,
                   timeline>>
    /\ OnlySystem

\* a suspended run of processDataWithConflictResolution goes on to its next
\* suspension or to its end: it ends normally, or updateAnalytics or
\* updateInterface throws; the syncFromGitHub that awaited it then ends
resumeRun(r, throws) ==
    /\ runs[r].pc \notin {"done", "threw"}
    /\ LET st == Resume([SystemState EXCEPT !.pc = runs[r].pc], jsonData)
       IN /\ throws => st.pc = "done"
          /\ Apply(st)
          /\ runs' = [runs EXCEPT ![r].pc = IF throws THEN "threw" ELSE st.pc]
          /\ IF st.pc = "done" /\ runs[r].origin = "sync"
             THEN EndSync(runs[r].sync, syncs)
             ELSE UNCHANGED <<syncs, isUpdating, timers>>
    /\ UNCHANGED <<ticks, destroyed, csvData, jsonData, csvDataHash, lastDataHash>>
    /\ OnlySystem

\* the callback of the timer of startAutoSave, and the listener of rulesSaved
\* that setupModuleIntegration installed: when the rules were saved and
\* equipmentMap is not empty, processDataWithConflictResolution is called
autoSaveTick(storage) ==
    /\ "autoSave" \in timers
    /\ ticks < MaxTicks
    /\ Len(runs) < MaxRuns
    /\ ticks' = ticks + 1
    /\ saveOnTick(storage)
    /\ LET st == processDataWithConflictResolution(SystemState, csvData, jsonData)
       IN IF isDirty /\ RulesWritten(storage) /\ equipmentMap.present /\ st.pc # "returned"
          THEN /\ Apply(st)
               /\ runs' = Append(runs, [origin |-> "rulesSaved", sync |-> 0, pc |-> st.pc])
          ELSE UNCHANGED <<runs, equipmentMap, items, processingStats, timeline>>
    /\ UNCHANGED <<timers, destroyed, isUpdating, syncs, csvData, jsonData, csvDataHash,
                   lastDataHash>>
    /\ UNCHANGED pipelineVars

\* the callback of a timer whose handle is not kept: updatePerformanceStats,
\* performRealTimeAnalysis or updateNextSyncTime
tick(timer) ==
    /\ timer \in timers \ HandleKept
    /\ ticks < MaxTicks
    /\ ticks' = ticks + 1
    /\ UNCHANGED <<timers, destroyed, isUpdating, syncs, runs, csvData, jsonData,
                   csvDataHash, lastDataHash, equipmentMap, items, processingStats,
                   timeline>>
    /\ OnlySystem

\* ProductivitySystem.destroy: the auto-sync timer is cleared, the datasets are
\* emptied, then ProductivityRules.destroy clears the auto-save timer, calls
\* saveRules when dirty and drops the rules; saveRules writes before its first
\* suspension, and the listener of rulesSaved finds equipmentMap empty
destroy(storage) ==
    /\ ~destroyed
    /\ destroyed' = TRUE
    /\ timers' = timers \ HandleKept
    /\ items' = << >>
    /\ equipmentMap' = NoEntry
    /\ timeline' = FALSE
    /\ localStorage' = IF isDirty /\ RulesWritten(storage)
                       THEN [localStorage EXCEPT !.productivity_rules_v2 = Stamped]
                       ELSE localStorage
    /\ rulesConfig' = NullRules
    /\ ruleHistory' = << >>
    /\ ruleApplicationLog' = << >>
    /\ isDirty' = FALSE
    /\ lastOp' = IF ~isDirty THEN "destroy"
                  ELSE IF RulesWritten(storage) THEN "destroy: saved"
                  ELSE "destroy: save failed"
    /\ UNCHANGED <<lastCall, defaultRules, tablesShared, loadPending, githubFile,
                   lastSuggestions>>
    /\ UNCHANGED <<ticks, isUpdating, syncs, runs, csvData, jsonData, csvDataHash,
                   lastDataHash, processingStats>>
    /\ UNCHANGED pipelineVars

Feeds == {"csv", "json"}

Remote(feed) == IF feed = "csv" THEN RemoteCsv ELSE RemoteJson

\* the rule engine without a stored document, and the pipeline model at rest
RulesAsConstructed ==
    /\ PipelineIdle
    /\ Constructed
    /\ githubFile = NoDoc
    /\ localStorage = EmptyStorage

InitSync ==
    /\ SystemStarted
    /\ RulesAsConstructed

\* a step of the fetch of one feed by the i-th call of syncFromGitHub
FetchStep(i, feed) ==
    /\ i \in DOMAIN syncs
    /\ \/ \E result \in FetchResults(Remote(feed)) : fetchSettles(i, feed, result)
       \/ retryAfterDelay(i, feed)

FetchSteps == \E i \in 1..MaxSyncs, feed \in Feeds : FetchStep(i, feed)

\* a step of the r-th processing run
RunStep(r) ==
    /\ r \in DOMAIN runs
    /\ \E throws \in BOOLEAN : resumeRun(r, throws)

RunSteps == \E r \in 1..(MaxSyncs + MaxRuns) : RunStep(r)

\* calls of syncFromGitHub by initGitHubSync, by the auto-sync timer and from the
\* page, their fetches and their processing runs
NextSync ==
    \/ syncFromGitHub
    \/ autoSyncTick
    \/ FetchSteps
    \/ RunSteps

SpecSync == InitSync /\ [][NextSync]_vars

\* the call of syncFromGitHub by initGitHubSync on its own: its fetches and its
\* processing run
NextRetry ==
    \/ FetchSteps
    \/ RunSteps

\* where a processing run can be
RunPcs == {"csvYield", "jsonYield", "groupsYield", "itemsYield", "timelineWait", "done",
           "threw"}

\* a suspended run moves on: what a step of RunSteps does to runs
RunAdvances ==
    \E r \in 1..(MaxSyncs + MaxRuns) :
       /\ r \in DOMAIN runs
       /\ runs[r].pc \notin {"done", "threw"}
       /\ \E pc \in RunPcs \ {runs[r].pc} : runs' = [runs EXCEPT ![r].pc = pc]

\* a request of fetch completes, and the timer that a fetch or a run waits for
\* fires; the condition on the runs is stated on where they are, which is all
\* that decides whether a run can move on
Settling == WF_vars(FetchSteps) /\ WF_runs(RunAdvances)

SpecRetry == InitSync /\ [][NextRetry]_vars /\ Settling

\* the rules are loaded, edited and saved by the auto-save timer while the call of
\* syncFromGitHub by initGitHubSync fetches and processes
NextRuns ==
    \/ LoadCompletes
    \/ /\ Edits < MaxEdits
       /\ \E edit \in RuleEdits : updateRule(edit[1], edit[2], edit[3])
    \/ \E storage \in StorageOutcomes : autoSaveTick(storage)
    \/ FetchSteps
    \/ RunSteps

SpecRuns == InitSync /\ [][NextRuns]_vars

\* what localStorage.setItem does during the saveRules of destroy, which writes no
\* backup
DestroyOutcomes == {"ok", "rules fail"}

\* a feed answers the attempt in flight
FetchSucceeds ==
    \E i \in 1..MaxSyncs, feed \in Feeds :
       /\ i \in DOMAIN syncs
       /\ \E data \in Remote(feed) : fetchSettles(i, feed, [success |-> TRUE, data |-> data])

\* a suspended run goes on and nothing throws
RunResumes ==
    \E r \in 1..(MaxSyncs + MaxRuns) : r \in DOMAIN runs /\ resumeRun(r, FALSE)

\* most edits in one behaviour of SpecShutdown
EditsBeforeShutdown == 1

\* the page until and after ProductivitySystem.destroy: the rules load and are
\* edited, the timers fire, the synchronisations and their runs go on without a
\* failure of the network
NextShutdown ==
    \/ LoadCompletes
    \/ /\ Edits < EditsBeforeShutdown
       /\ \E edit \in RuleEdits : updateRule(edit[1], edit[2], edit[3])
    \/ \E storage \in StorageOutcomes : autoSaveTick(storage)
    \/ autoSyncTick
    \/ \E timer \in TimersAtStart : tick(timer)
    \/ \E storage \in DestroyOutcomes : destroy(storage)
    \/ FetchSucceeds
    \/ RunResumes

SpecShutdown == InitSync /\ [][NextShutdown]_vars

(***************************************************************************)
(* Properties of the reconciliation pipeline                               *)
(***************************************************************************)
\* C1 (as stated): in the sequence returned by resolveStatusConflictsAdvanced no
\* interval ends after its successor starts, and every interval starts before it
\* ends, under every conflict strategy
C1_NonOverlap ==
    processed =>
      /\ \A i \in 1..(Len(mlOptimizedStatus) - 1) :
            mlOptimizedStatus[i].end <= mlOptimizedStatus[i + 1].start
      /\ \A i \in 1..Len(mlOptimizedStatus) :
            mlOptimizedStatus[i].start < mlOptimizedStatus[i].end

\* C2 (as stated): resolving overlaps, consolidating, filling gaps and correcting
\* anomalies a second time, on the sequence a run returned, returns that sequence
C2_Idempotence ==
    processed =>
      PipelineStages(mlOptimizedStatus, equipmentName, conflictResolution).mlOptimized
        = mlOptimizedStatus

\* the run just made was Scenario A under strategy 'priority'
ScenarioARun ==
    processed /\ conflictResolution = "priority" /\ sortedStatus = ScenarioA

\* C7 (as stated): in Scenario A under 'priority' the composite scores differ by at
\* most 0.2 and resolveOverlapsAdvanced outputs one weighted-merge interval
\* spanning 10:00-10:45
C7_ScenarioA_WeightedMerge ==
    ScenarioARun =>
      /\ Abs(CompositeScore(ScenarioA[1], determineEquipmentGroup(equipmentName))
             - CompositeScore(ScenarioA[2], determineEquipmentGroup(equipmentName))) <= 2000
      /\ Len(resolvedStatus) = 1
      /\ resolvedStatus[1].merge_type = "weighted"
      /\ resolvedStatus[1].start = 36000
      /\ resolvedStatus[1].end = 38700

\* C7 (amended): in Scenario A under 'priority' the composite scores differ by more
\* than 0.2 (0.6 apart on priority alone), so the higher-scored running interval
\* wins: resolveOverlapsAdvanced outputs one interval 10:00-10:45 that keeps status
\* running, has confidence 0.6 and is not a weighted merge
C7_ScenarioA_PriorityWins ==
    ScenarioARun =>
      /\ CompositeScore(ScenarioA[1], determineEquipmentGroup(equipmentName))
           - CompositeScore(ScenarioA[2], determineEquipmentGroup(equipmentName)) > 2000
      /\ Len(resolvedStatus) = 1
      /\ resolvedStatus[1].status = "running"
      /\ resolvedStatus[1].status_title = "Operando"
      /\ resolvedStatus[1].start = 36000
      /\ resolvedStatus[1].end = 38700
      /\ resolvedStatus[1].confidence = 600
      /\ resolvedStatus[1].merge_type = NoValue
      /\ resolvedStatus[1].original_statuses = << >>

C7_Witness ==
    ScenarioARun /\ Len(resolvedStatus) = 1 /\ resolvedStatus[1].end = 38700

\* the sequence given to consolidateConsecutiveAdvanced holds two running intervals
\* with the same label, the second starting gap seconds after the first ends
RunningPairWithGap(gap) ==
    /\ processed
    /\ Len(resolvedStatus) = 2
    /\ resolvedStatus[1].status = "running"
    /\ resolvedStatus[2].status = "running"
    /\ resolvedStatus[1].status_title = resolvedStatus[2].status_title
    /\ resolvedStatus[2].start - resolvedStatus[1].end = gap

\* C8 (as stated): two running intervals with the same label 45 s apart are
\* consolidated into one interval from the first start to the second end, the
\* merge count is incremented and no filler is inserted between them
C8_ScenarioD_Consolidated ==
    RunningPairWithGap(45) =>
      /\ Len(consolidatedStatus) = 1
      /\ consolidatedStatus[1].start = resolvedStatus[1].start
      /\ consolidatedStatus[1].end = resolvedStatus[2].end
      /\ consolidatedStatus[1].consolidated_count = 2
      /\ \A i \in 1..Len(finalStatus) : ~finalStatus[i].gap_filled

\* C8 (amended): with base tolerance 60 s the tolerance of a running/running pair
\* is 30 s. Two running intervals with the same label 45 s apart are not
\* consolidated: both are kept and fillSmallGapsIntelligent inserts the default
\* 'off' filler over the 45 s between them; 5 s apart they are consolidated
\* into one interval from the first start to the second end with merge count 2
C8_ScenarioD_NotConsolidated ==
    /\ RunningPairWithGap(45) =>
         /\ consolidatedStatus = resolvedStatus
         /\ Len(finalStatus) = 3
         /\ finalStatus[1] = resolvedStatus[1]
         /\ finalStatus[3] = resolvedStatus[2]
         /\ finalStatus[2].gap_filled
         /\ finalStatus[2].gap_type = "default"
         /\ finalStatus[2].status = "off"
         /\ finalStatus[2].start = resolvedStatus[1].end
         /\ finalStatus[2].end = resolvedStatus[2].start
    /\ RunningPairWithGap(5) =>
         /\ Len(consolidatedStatus) = 1
         /\ consolidatedStatus[1].start = resolvedStatus[1].start
         /\ consolidatedStatus[1].end = resolvedStatus[2].end
         /\ consolidatedStatus[1].consolidated_count = 2
         /\ finalStatus = consolidatedStatus

C8_Witness ==
    /\ sortedStatus = ScenarioD
    /\ RunningPairWithGap(45)
    /\ Len(finalStatus) = 3
    /\ finalStatus[2].end - finalStatus[2].start = 45

(***************************************************************************)
(* Properties of removeDuplicatesAdvanced and applyMLOptimizations          *)
(***************************************************************************)
\* the positions of list whose record has the deduplication key of record r
SameKey(list, r) == { j \in 1..Len(list) : DedupKey(list[j]) = DedupKey(r) }

\* among the positions group of statusList, the first one with the largest total_time
LargestFirst(group) ==
    CHOOSE j \in group :
       \A k \in group :
          \/ statusList[j].total_time > statusList[k].total_time
          \/ statusList[j].total_time = statusList[k].total_time /\ j <= k

\* C3 (as stated): the records of the input that share start minute, end minute,
\* status and source are represented in the output of removeDuplicatesAdvanced by
\* exactly one record, the one with the largest total_time, the first such on a tie
C3_DedupKeepsLargest ==
    processed =>
      \A i \in 1..Len(statusList) :
         /\ Cardinality(SameKey(uniqueStatus, statusList[i])) = 1
         /\ \A k \in SameKey(uniqueStatus, statusList[i]) :
               uniqueStatus[k] = statusList[LargestFirst(SameKey(statusList, statusList[i]))]

\* prev, current, next match a known pattern and current is shorter than the
\* pattern's threshold
KnownAnomaly(prev, current, next) ==
    \/ /\ prev.status = "running" /\ current.status = "stopped" /\ next.status = "running"
       /\ current.end - current.start < 30
    \/ /\ prev.status = "off" /\ current.status = "running" /\ next.status = "off"
       /\ current.end - current.start < 60
    \/ /\ prev.status = "maintenance" /\ current.status = "running"
       /\ next.status = "maintenance"
       /\ current.end - current.start < 300

\* the status that occurs most often among prev and next, prev's on a tie
MajorityStatus(prev, next) == prev.status

\* C10: for every triplet of consecutive intervals given to applyMLOptimizations
\* that matches a known pattern with the middle interval below the pattern's
\* threshold, the output interval at the middle position has the majority status
\* of its neighbours, anomaly_corrected set, original_status equal to its former
\* status, confidence 0.6 and its boundaries unchanged; the middle interval of
\* running (20 s), stopped (5 s), running becomes running
C10_AnomalyCorrection ==
    processed =>
      /\ Len(mlOptimizedStatus) = Len(finalStatus)
      /\ \A i \in 2..(Len(finalStatus) - 1) :
            KnownAnomaly(finalStatus[i - 1], finalStatus[i], finalStatus[i + 1]) =>
              /\ mlOptimizedStatus[i].status
                   = MajorityStatus(finalStatus[i - 1], finalStatus[i + 1])
              /\ mlOptimizedStatus[i].anomaly_corrected
              /\ mlOptimizedStatus[i].original_status = finalStatus[i].status
              /\ mlOptimizedStatus[i].confidence = 600
              /\ mlOptimizedStatus[i].start = finalStatus[i].start
              /\ mlOptimizedStatus[i].end = finalStatus[i].end
      /\ finalStatus = ScenarioE =>
            /\ mlOptimizedStatus[2].status = "running"
            /\ mlOptimizedStatus[2].anomaly_corrected

C10_Witness ==
    /\ processed
    /\ finalStatus = ScenarioE
    /\ mlOptimizedStatus[2].status = "running"
    /\ mlOptimizedStatus[2].original_status = "stopped"
    /\ mlOptimizedStatus[2].anomaly_corrected

(***************************************************************************)
(* Properties of the classification                                        *)
(***************************************************************************)
\* the three layer flags are set and the sections the layers read are there
AllLayersEnabled ==
    /\ rulesConfig # NullRules
    /\ SettingOn("enableTimeBasedRules")
    /\ SettingOn("enableGroupOverrides")
    /\ SettingOn("enableContextualRules")
    /\ rulesConfig.timeBasedRules # Absent
    /\ rulesConfig.groupSpecificRules # Absent
    /\ rulesConfig.contextualRules # Absent

\* the override table of the entry's equipment group is enabled and defines the
\* entry's activity code
OverrideDefined(entry) ==
    /\ entry.context # NullContext
    /\ entry.context.equipmentGroup \in DOMAIN rulesConfig.groupSpecificRules
    /\ rulesConfig.groupSpecificRules[entry.context.equipmentGroup].enabled
    /\ entry.activity.text
         \in DOMAIN rulesConfig.groupSpecificRules[entry.context.equipmentGroup].overrides

TheOverride(entry) ==
    rulesConfig.groupSpecificRules[entry.context.equipmentGroup].overrides[entry.activity.text]

\* the entry's timestamp falls in business hours, or in the night shift, and that
\* window's modifiers define the entry's activity code
InBusinessHours(entry) ==
    /\ entry.context.timestamp # Undefined
    /\ entry.context.timestamp >= rulesConfig.timeBasedRules.businessHours.start
    /\ entry.context.timestamp <= rulesConfig.timeBasedRules.businessHours.end
    /\ entry.activity.text \in DOMAIN rulesConfig.timeBasedRules.businessHours.modifiers

InNightShift(entry) ==
    /\ entry.context.timestamp # Undefined
    /\ \/ entry.context.timestamp >= rulesConfig.timeBasedRules.nightShift.start
       \/ entry.context.timestamp <= rulesConfig.timeBasedRules.nightShift.end
    /\ entry.activity.text \in DOMAIN rulesConfig.timeBasedRules.nightShift.modifiers

\* C4: with all layers enabled, a classification whose group override table
\* defines the activity code results in that override, whatever the base mapping;
\* when its timestamp also falls in a time window whose modifiers define the code,
\* it results in the modifier of that window (of business hours when both windows
\* contain the time), whatever the override
C4_LayerPrecedence ==
    AllLayersEnabled =>
      \A i \in DOMAIN ruleApplicationLog :
         LET entry == ruleApplicationLog[i]
         IN OverrideDefined(entry) =>
              IF InBusinessHours(entry)
              THEN entry.result
                     = rulesConfig.timeBasedRules.businessHours.modifiers[entry.activity.text]
              ELSE IF InNightShift(entry)
              THEN entry.result
                     = rulesConfig.timeBasedRules.nightShift.modifiers[entry.activity.text]
              ELSE entry.result = TheOverride(entry)

\* a call at 20:00 for a truck: the night-shift modifier of 'stopped' (productive)
\* is the result, not the override of caminhoes (non-productive) nor the base
\* mapping (neutral)
C4_Witness ==
    /\ AllLayersEnabled
    /\ ruleApplicationLog # << >>
    /\ OverrideDefined(ruleApplicationLog[1])
    /\ InNightShift(ruleApplicationLog[1])
    /\ ~InBusinessHours(ruleApplicationLog[1])
    /\ ruleApplicationLog[1].result = "productive"
    /\ TheOverride(ruleApplicationLog[1]) = "non-productive"
    /\ rulesConfig.telemetryRules[ruleApplicationLog[1].activity.text] = "neutral"

\* the call's input is absent or malformed, or a layer fails on it
MalformedOrFailing(call) ==
    \/ call.activity.type # "string"
    \/ call.context = NullContext
    \/ evaluateRules(call.activity, call.activityType, call.context) = TypeError

\* C5 (as stated): applyIntelligentRules returns a class and throws nothing, in
\* every state of the rules; when the input is absent or malformed or a layer
\* fails, the class is the configured globalSettings.defaultClassification
C5_TotalWithConfiguredDefault ==
    lastCall # NoCall =>
      /\ ~lastCall.threw
      /\ lastCall.returned \in validClassifications
      /\ (lastCall.rulesLoaded /\ MalformedOrFailing(lastCall)) =>
            lastCall.returned = rulesConfig.globalSettings.defaultClassification

\* C6: while the rules stay as loaded, two classifications of the same activity,
\* activityType and context have the same result, whatever was classified between
\* them
C6_Determinism ==
    \A i \in DOMAIN ruleApplicationLog : \A j \in DOMAIN ruleApplicationLog :
       ( /\ ruleApplicationLog[i].activity = ruleApplicationLog[j].activity
         /\ ruleApplicationLog[i].activityType = ruleApplicationLog[j].activityType
         /\ ruleApplicationLog[i].context = ruleApplicationLog[j].context )
       => ruleApplicationLog[i].result = ruleApplicationLog[j].result

\* an unmapped activity classified twice, another classification in between
C6_Witness ==
    /\ Len(ruleApplicationLog) = 3
    /\ ruleApplicationLog[1].activity = Str(<<"x","y","z","-","u","n","k","n","o","w","n">>)
    /\ ruleApplicationLog[3].activity = ruleApplicationLog[1].activity
    /\ ruleApplicationLog[3].context = ruleApplicationLog[1].context
    /\ ruleApplicationLog[2].activity # ruleApplicationLog[1].activity
    /\ ruleApplicationLog[3].result = ruleApplicationLog[1].result

\* the last call was made with the default rules loaded, for this status and an
\* empty context
ScenarioC(status) ==
    /\ rulesConfig = createIntelligentDefaultRules
    /\ lastCall # NoCall
    /\ lastCall.rulesLoaded
    /\ lastCall.activity = Str(status)
    /\ lastCall.activityType = "status"
    /\ lastCall.context = EmptyContext

\* the activities that the rule application log records as not covered by a rule
UnknownCandidates ==
    { ruleApplicationLog[i].activity.text :
        i \in { k \in DOMAIN ruleApplicationLog :
                  ruleApplicationLog[k].ruleSource # "base" } }

\* C9 (as stated): with the default rules and an empty context, 'running' is
\* productive, 'maintenance' is non-productive, and 'xyz-unknown' gets the default
\* class neutral with confidence 0.5 and is recorded as an unknown activity
C9_ScenarioC ==
    /\ ScenarioC(<<"r","u","n","n","i","n","g">>) => lastCall.returned = "productive"
    /\ ScenarioC(<<"m","a","i","n","t","e","n","a","n","c","e">>) => lastCall.returned = "non-productive"
    /\ ScenarioC(<<"x","y","z","-","u","n","k","n","o","w","n">>) =>
         /\ lastCall.returned = "neutral"
         /\ lastCall.confidence = 500
         /\ <<"x","y","z","-","u","n","k","n","o","w","n">> \in UnknownCandidates

(***************************************************************************)
(* Properties of the rule store                                            *)
(***************************************************************************)
\* C11 (as stated): after an auto-save tick that found the rules dirty and failed
\* to write them, the store is still dirty, so that the next tick writes again;
\* hence whenever edits were made and the store is not dirty, the stored document
\* is the live RuleSet
C11_FailedFlushStaysDirty ==
    /\ lastOp = "autoSave: save failed" => isDirty
    /\ (Edits > 0 /\ ~isDirty /\ ~loadPending) =>
          localStorage.productivity_rules_v2 = rulesConfig

\* every value of a table is one of the three classes
ClassesOnly(table) ==
    table # Absent => \A key \in DOMAIN table : table[key] \in validClassifications

\* every value of the base tables and of the group override tables of a document
\* is one of the three classes
AllClassesValid(rules) ==
    /\ ClassesOnly(rules.telemetryRules)
    /\ ClassesOnly(rules.appointmentRules)
    /\ rules.groupSpecificRules # Absent =>
         \A group \in DOMAIN rules.groupSpecificRules :
            ClassesOnly(rules.groupSpecificRules[group].overrides)

\* C12 (as stated): once rules are loaded, after any sequence of load, migration,
\* updateRule, autoAddRule and resetToDefaults, every value in telemetryRules,
\* appointmentRules and the group override tables of the live RuleSet is one of
\* productive, non-productive, neutral
C12_ClassInvariant ==
    rulesConfig # NullRules => AllClassesValid(rulesConfig)

\* the document has the three required sections and only the three classes in its
\* rule tables
Acceptable(doc) ==
    /\ doc # NoDoc
    /\ HasRequiredFields(doc)
    /\ AllClassesValid(doc)

\* an accepted document as it becomes the live RuleSet: migrated when its version
\* is older
AsLoaded(doc) == IF NeedsMigration(doc) THEN migrateRulesVersion(doc) ELSE doc

\* C13 (as stated): a stored document that lacks a required section or holds a
\* class outside the three classes in any rule table is rejected; the load ends
\* with the first acceptable document of the load order (repository file, then
\* localStorage), else with the defaults
C13_ValidationOnLoad ==
    ~loadPending =>
       rulesConfig =
          IF Acceptable(githubFile) THEN AsLoaded(githubFile)
          ELSE IF Acceptable(localStorage.productivity_rules_v2)
          THEN AsLoaded(localStorage.productivity_rules_v2)
          ELSE createIntelligentDefaultRules

\* rulesConfig differs from its value before the step in its base tables at most
OnlyBaseTablesWritten ==
    [rulesConfig' EXCEPT !.telemetryRules = rulesConfig.telemetryRules,
                         !.appointmentRules = rulesConfig.appointmentRules] = rulesConfig

C16_DirtyFlagProtocol ==
    /\ [](lastOp \in {"updateRule", "resetToDefaults"} => isDirty)
    /\ [][lastOp' = "autoSave: not dirty"
            => UNCHANGED <<rulesConfig, defaultRules, isDirty, ruleHistory, localStorage>>]_vars
    /\ [](lastOp \in {"autoSave: saved", "autoSave: save failed"}
            => ~isDirty /\ localStorage.productivity_rules_v2 = rulesConfig)
    /\ [][(isDirty /\ ~isDirty')
            => lastOp' \in {"autoSave: saved", "autoSave: save failed"}]_vars


(***************************************************************************)
(* One interval in conflict with each of the records that follow it        *)
(***************************************************************************)
\* most conflicts in a row that the records of one asset put to one interval
MaxConflicts == 6

\* an interval of one hour followed by n half-minute records, one a minute, that
\* lie inside it: each of them overlaps the current interval by more than
\* overlapThreshold
ConflictChain(first, then, n) ==
    [i \in 1..(n + 1) |->
       IF i = 1 THEN RawStatus(first, StatusTitle(first), 0, 3600, 3600, "V1")
       ELSE RawStatus(then, StatusTitle(then), 60 * (i - 1), 60 * (i - 1) + 30, 30, "V1")]

InitChain ==
    /\ SystemNotStarted
    /\ NothingProcessed
    /\ finalStatus = << >>
    /\ equipmentName \in EquipmentNames
    /\ \E first \in Statuses, then \in Statuses, n \in 0..MaxConflicts :
          statusList = ConflictChain(first, then, n)

NextChain == resolveStatusConflictsAdvanced

SpecChain == InitChain /\ [][NextChain]_vars

(***************************************************************************)
(* Properties of the pipeline: frame, confidence and merge span            *)
(***************************************************************************)
\* C14: a call of resolveStatusConflictsAdvanced leaves every record of its input
\* list as it was (start, end, status, total_time, confidence), so a second run
\* over the same retained records returns the sequence the first run returned
C14_PipelinePure ==
    [][ /\ statusList' = statusList
        /\ (processed /\ conflictResolution' = conflictResolution
              => mlOptimizedStatus' = mlOptimizedStatus) ]_vars


\* the confidence of a record, where it has one, lies between 0 and 1
ConfidenceInRange(list) ==
    \A i \in 1..Len(list) :
       list[i].confidence # Undefined => (list[i].confidence >= 0 /\ list[i].confidence <= 1000)

\* C17: every interval returned by resolveOverlapsAdvanced, by
\* consolidateConsecutiveAdvanced and fillSmallGapsIntelligent and by
\* applyMLOptimizations has a confidence in [0, 1], however many conflicts in a
\* row one interval wins and however often the pipeline runs
C17_ConfidenceBound ==
    /\ ConfidenceInRange(resolvedStatus)
    /\ ConfidenceInRange(consolidatedStatus)
    /\ ConfidenceInRange(finalStatus)
    /\ ConfidenceInRange(mlOptimizedStatus)


\* the two records of a run over two records were merged by mergeStatusWithWeight
WeightedMergeOfTwo ==
    /\ processed
    /\ Len(sortedStatus) = 2
    /\ Len(resolvedStatus) = 1
    /\ resolvedStatus[1].merge_type = "weighted"

\* C18: the interval that mergeStatusWithWeight makes of a current interval and an
\* overlapping next one starts at the earlier start and ends at the later end, also
\* when next lies inside current; its duration is the sum of the two reported
\* durations and its confidence the larger of the two normalized weights
C18_WeightedMergeSpan ==
    WeightedMergeOfTwo =>
       LET current == sortedStatus[1]
           next == sortedStatus[2]
           merged == resolvedStatus[1]
           resolution == resolveConflictAdvanced(current, next, equipmentName,
                                                 conflictResolution)
           total == resolution.weight1 + resolution.weight2
       IN /\ merged.start = (IF next.start < current.start THEN next.start ELSE current.start)
          /\ merged.end = Max(current.end, next.end)
          /\ merged.total_time = current.total_time + next.total_time
          /\ merged.confidence = (1000 * Max(resolution.weight1, resolution.weight2)) \div total


\* position i of the list is the middle of a triplet that matches a known pattern
CorrectedPosition(list, i) ==
    /\ i > 1
    /\ i < Len(list)
    /\ KnownAnomaly(list[i - 1], list[i], list[i + 1])

\* C19: applyMLOptimizations returns as many intervals as it was given, each with
\* the start and end of the interval given at its position; the first, the last
\* and the middle of every non-matching triplet are returned with every field as
\* given, and a corrected interval differs from the given one in nothing but
\* status, status_title, anomaly_corrected, original_status and confidence
C19_AnomalyFrame ==
    processed =>
      /\ Len(mlOptimizedStatus) = Len(finalStatus)
      /\ \A i \in 1..Len(finalStatus) :
            /\ mlOptimizedStatus[i].start = finalStatus[i].start
            /\ mlOptimizedStatus[i].end = finalStatus[i].end
            /\ ~CorrectedPosition(finalStatus, i) => mlOptimizedStatus[i] = finalStatus[i]
            /\ [mlOptimizedStatus[i] EXCEPT
                  !.status = finalStatus[i].status,
                  !.status_title = finalStatus[i].status_title,
                  !.anomaly_corrected = finalStatus[i].anomaly_corrected,
                  !.original_status = finalStatus[i].original_status,
                  !.confidence = finalStatus[i].confidence] = finalStatus[i]

C19_Witness ==
    /\ processed
    /\ Len(finalStatus) = 4
    /\ CorrectedPosition(finalStatus, 2)
    /\ mlOptimizedStatus[2].status # finalStatus[2].status
    /\ mlOptimizedStatus[2].total_time = finalStatus[2].total_time
    /\ ~CorrectedPosition(finalStatus, 3)
    /\ mlOptimizedStatus[3] = finalStatus[3]


\* the gap between interval i of the list and the next one is one to fill
SmallGap(list, i) ==
    /\ i < Len(list)
    /\ list[i + 1].start - list[i].end > 0
    /\ list[i + 1].start - list[i].end <= 2 * gapTolerance

\* the position in the output of interval i of the input: one further for every
\* gap filled before it
PositionFilled(list, i) == i + Cardinality({ j \in 1..(i - 1) : SmallGap(list, j) })

\* the asset's group has a fill rule for an interval of status prev followed by
\* one of status next
HasGroupRule(name, prev, next) ==
    /\ determineEquipmentGroup(name) \in {"Alta Pressão", "Caminhões"}
    /\ <<prev, next>> \in {<<"running", "stopped">>, <<"stopped", "running">>}

\* C20: between two consecutive intervals of the input of fillSmallGapsIntelligent
\* that are separated by a gap g with 0 < g <= 2 x gapTolerance the output has
\* exactly one filler, from the end of the first to the start of the second, with
\* gap_filled set; the filler has the status of the group's rule for the two
\* statuses when there is one (gap_type contextual, confidence 0.7 to 0.9; off for
\* running then stopped on a truck) and otherwise off with confidence 0.5 and
\* gap_type default; between other pairs nothing is inserted, and every input
\* interval is returned as given
C20_GapFilling ==
    processed =>
      /\ Len(finalStatus) = Len(consolidatedStatus)
            + Cardinality({ i \in 1..Len(consolidatedStatus) : SmallGap(consolidatedStatus, i) })
      /\ \A i \in 1..Len(consolidatedStatus) :
            LET at == PositionFilled(consolidatedStatus, i)
                prev == consolidatedStatus[i]
            IN /\ finalStatus[at] = prev
               /\ SmallGap(consolidatedStatus, i) =>
                     LET next == consolidatedStatus[i + 1]
                         filler == finalStatus[at + 1]
                     IN /\ filler.start = prev.end
                        /\ filler.end = next.start
                        /\ filler.gap_filled
                        /\ IF HasGroupRule(equipmentName, prev.status, next.status)
                           THEN /\ filler.gap_type = "contextual"
                                /\ filler.confidence >= 700
                                /\ filler.confidence <= 900
                                /\ filler.status \in {"off", "preparing", "transitioning"}
                                /\ (determineEquipmentGroup(equipmentName) = "Caminhões"
                                      /\ prev.status = "running"
                                      => filler.status = "off")
                           ELSE /\ filler.gap_type = "default"
                                /\ filler.confidence = 500
                                /\ filler.status = "off"

C20_Witness ==
    /\ processed
    /\ Len(consolidatedStatus) = 3
    /\ determineEquipmentGroup(equipmentName) = "Caminhões"
    /\ consolidatedStatus[1].status = "running"
    /\ consolidatedStatus[2].status = "stopped"
    /\ consolidatedStatus[2].start - consolidatedStatus[1].end = 2 * gapTolerance
    /\ consolidatedStatus[3].start - consolidatedStatus[2].end = 2 * gapTolerance + 1
    /\ Len(finalStatus) = 4
    /\ finalStatus[2].gap_type = "contextual"
    /\ finalStatus[2].status = "off"
    /\ finalStatus[3] = consolidatedStatus[2]
    /\ finalStatus[4] = consolidatedStatus[3]


(***************************************************************************)
(* Properties of the learning scan                                         *)
(***************************************************************************)
\* the base table that a suggestion is added to
TargetTable(rules, suggestion) ==
    IF suggestion.type = "status" THEN rules.telemetryRules ELSE rules.appointmentRules

\* C21: a learning scan writes a base rule for an unknown activity if and only if
\* the confidence of its suggestion exceeds globalSettings.confidenceThreshold, so
\* that another configured threshold auto-adds other suggestions
C21_AutoAddThreshold ==
    [][ lastOp' = "suggestRulesForUnknownActivities" =>
          \A i \in DOMAIN lastSuggestions' :
             LET suggestion == lastSuggestions'[i]
             IN suggestion.activity \notin DOMAIN TargetTable(rulesConfig, suggestion) =>
                  ( suggestion.activity \in DOMAIN TargetTable(rulesConfig', suggestion)
                    <=> suggestion.confidence > rulesConfig.globalSettings.confidenceThreshold )
      ]_vars

\* a definition of intelligentFallback matches the activity of the suggestion
FallbackMatches(suggestion) ==
    IF suggestion.type = "status"
    THEN FirstStatusMatch(toLowerCase(suggestion.activity)) # 0
    ELSE FirstAppointmentMatch(toLowerCase(suggestion.activity)) # 0

\* C22: a suggestion has confidence 0.9 exactly when intelligentFallback matched
\* the activity (code or display name) and returned the class of the match; when
\* nothing matched it has the global default class and confidence 0.5, and its
\* activity is not auto-added
C22_FallbackConfidence ==
    lastOp = "suggestRulesForUnknownActivities" =>
       \A i \in DOMAIN lastSuggestions :
          LET suggestion == lastSuggestions[i]
          IN /\ suggestion.confidence = 900 <=> FallbackMatches(suggestion)
             /\ ~FallbackMatches(suggestion) =>
                   /\ suggestion.suggestedClassification = DefaultClassificationOrNeutral
                   /\ suggestion.confidence = 500
                   /\ suggestion.activity \notin DOMAIN TargetTable(rulesConfig, suggestion)


(***************************************************************************)
(* Properties of the migration                                             *)
(***************************************************************************)
\* the version has a lower major number than the current version
OlderVersion(v) == v # << >> /\ CharCode(v[1]) < CharCode(version[1])

\* the sections of a document that a migration supplies
MigratedSections == {"groupSpecificRules", "timeBasedRules", "contextualRules", "metadata"}

\* the stored document that the load took: the repository file when
\* validateAndMigrateRules accepted it, else the localStorage item when accepted
DocumentTaken ==
    IF LoadFrom(githubFile).valid THEN githubFile
    ELSE IF LoadFrom(localStorage.productivity_rules_v2).valid
    THEN localStorage.productivity_rules_v2
    ELSE NoDoc

\* C23: a loaded document with the required fields and no version or an older one
\* comes out of validateAndMigrateRules with the current version, with each of
\* groupSpecificRules, timeBasedRules, contextualRules and metadata as loaded when
\* it had the section and as in the defaults when it had not, and with the default
\* settings overlaid by its own; a document of the current version comes out as
\* loaded
C23_Migration ==
    (~loadPending /\ DocumentTaken # NoDoc) =>
       LET doc == DocumentTaken
       IN IF doc.version = << >> \/ OlderVersion(doc.version)
          THEN /\ rulesConfig.version = version
               /\ \A section \in MigratedSections :
                     /\ rulesConfig[section] # Absent
                     /\ rulesConfig[section] =
                          IF doc[section] = Absent
                          THEN createIntelligentDefaultRules[section] ELSE doc[section]
               /\ DOMAIN rulesConfig.globalSettings
                    = DOMAIN defaultGlobalSettings \cup DOMAIN doc.globalSettings
               /\ \A key \in DOMAIN rulesConfig.globalSettings :
                     rulesConfig.globalSettings[key] =
                        IF key \in DOMAIN doc.globalSettings THEN doc.globalSettings[key]
                        ELSE defaultGlobalSettings[key]
               /\ rulesConfig.telemetryRules = doc.telemetryRules
               /\ rulesConfig.appointmentRules = doc.appointmentRules
          ELSE rulesConfig = doc

\* the version-1.5.0 document was taken: its sections are kept, its two settings
\* are kept and the other settings are the defaults
C23_Witness ==
    /\ ~loadPending
    /\ DocumentTaken = DocOldEdited
    /\ rulesConfig.version = version
    /\ rulesConfig.metadata.rulesCount = 7
    /\ rulesConfig.globalSettings.confidenceThreshold = 700
    /\ rulesConfig.globalSettings.enableTimeBasedRules

(***************************************************************************)
(* Properties of the defaults and of the initial load                      *)
(***************************************************************************)
\* the two base tables of a rule set
BaseTables == {"telemetryRules", "appointmentRules"}

\* the tables of the rule set are the tables generated at construction
CompiledInTables(rules) ==
    \A table \in BaseTables : rules[table] = createIntelligentDefaultRules[table]

\* C27: edits to the live rule set never change the stored defaults, and after
\* resetToDefaults the live telemetryRules and appointmentRules are the default
\* tables generated at construction
C27_ResetRestoresDefaults ==
    [][ /\ CompiledInTables(defaultRules')
        /\ lastOp' = "resetToDefaults" => CompiledInTables(rulesConfig')
      ]_vars

\* the edit is in the rule set
Reflected(rules, edit) ==
    LET targetRules == IF edit[1] = "status" THEN "telemetryRules" ELSE "appointmentRules"
    IN /\ rules # NullRules
       /\ edit[2] \in DOMAIN rules[targetRules]
       /\ rules[targetRules][edit[2]] = edit[3]

\* C28: when the initial load completes right after an updateRule call, issued
\* with or without a rule set in place, the edit of that call is in the live rule
\* set and the dirty flag is set
C28_NoEditLost ==
    [][ /\ lastOp \in {"updateRule", "updateRule: no rules"}
        /\ loadPending
        /\ ~loadPending'
        => /\ \E edit \in RuleEdits : Reflected(rulesConfig', edit)
           /\ isDirty'
      ]_vars

(***************************************************************************)
(* Coverage of the resolved sequence                                       *)
(***************************************************************************)
\* the instant t lies in an interval of the list
Covered(list, t) == \E i \in DOMAIN list : list[i].start <= t /\ t < list[i].end

\* the instants where a hole in the cover of after can begin inside before
CoverEdges(before, after) ==
    { before[i].start : i \in DOMAIN before } \cup { after[i].end : i \in DOMAIN after }

\* C29: under every strategy, every instant covered by an interval of the sorted
\* input of resolveOverlapsAdvanced is covered by an interval of its output
C29_CoveragePreserved ==
    processed =>
       \A t \in CoverEdges(sortedStatus, resolvedStatus) :
          Covered(sortedStatus, t) => Covered(resolvedStatus, t)

(***************************************************************************)
(* Properties of synchronisation                                           *)
(***************************************************************************)
\* the calls of syncFromGitHub whose body is executing
LiveSyncs == { i \in DOMAIN syncs : syncs[i].state # "ended" }

\* C25: at most one body of syncFromGitHub is executing, whoever called it, and
\* isUpdating is true exactly while one is: it is false again after every end of a
\* call, with both feeds fetched, with one or both failed, or with processing
\* having thrown
C25_SyncMutualExclusion ==
    /\ Cardinality(LiveSyncs) <= 1
    /\ isUpdating <=> LiveSyncs # {}

\* a call whose csv feed failed and whose processing threw has ended, a later
\* call is fetching
C25_Witness ==
    /\ Len(syncs) = 2
    /\ syncs[1].state = "ended"
    /\ syncs[1].csv.state = "rejected"
    /\ \E r \in DOMAIN runs : runs[r].sync = 1 /\ runs[r].pc = "threw"
    /\ syncs[2].state = "fetching"
    /\ isUpdating

\* the attempts of both feeds of every call are within retryAttempts
AttemptsBounded ==
    \A i \in DOMAIN syncs : \A feed \in Feeds : syncs[i][feed].attempt <= retryAttempts

\* a feed that was fetched stays as it was returned until its call ends
NoAttemptAfterSuccess ==
    \A i \in DOMAIN syncs : \A feed \in Feeds :
       syncs[i][feed].state = "fulfilled" /\ syncs'[i].state # "ended"
          => syncs'[i][feed] = syncs[i][feed]

\* fetchDataWithRetry throws only after its last attempt
ThrowsAfterLastAttempt ==
    \A i \in DOMAIN syncs : \A feed \in Feeds :
       syncs[i][feed].state # "rejected" /\ syncs'[i][feed].state = "rejected"
          => syncs[i][feed].attempt = retryAttempts

\* the i-th call of syncFromGitHub has ended
SyncCompleted(i) == Len(syncs) >= i /\ syncs[i].state = "ended"

RunsInProgress == { r \in DOMAIN runs : runs[r].pc \notin {"done", "threw"} }

\* what one run of processDataWithConflictResolution over the data leaves when
\* nothing runs between its steps
SingleRun(csvNow, jsonNow) ==
    RunToEnd(processDataWithConflictResolution(SystemState, csvNow, jsonNow), jsonNow)

\* C26: at most one run of processDataWithConflictResolution is in progress, and
\* when a run finishes, equipmentMap, the timeline items and processingStats are
\* those that a single run over the current data produces
C26_NoInterleavedRuns ==
    [][ /\ Cardinality(RunsInProgress') <= 1
        /\ \A r \in RunsInProgress :
              runs'[r].pc = "done" =>
                 LET single == SingleRun(csvData', jsonData')
                 IN /\ equipmentMap' = single.equipmentMap
                    /\ items' = single.items
                    /\ processingStats' = single.processingStats
      ]_vars

(***************************************************************************)
(* Properties of the shutdown                                              *)
(***************************************************************************)
\* destroy is taking place
Destroying == ~destroyed /\ destroyed'

\* C24: after ProductivitySystem.destroy no callback of an interval timer runs
\* again, and rules that are dirty when destroy is called are written to
\* localStorage by destroy before the rules are dropped, unless saveRules logs
\* that the save failed
C24_ShutdownStopsTimers ==
    [][ /\ destroyed => ticks' = ticks
        /\ (Destroying /\ isDirty) =>
              /\ lastOp' # "destroy: save failed" =>
                    localStorage'.productivity_rules_v2 = Stamped
              /\ rulesConfig' = NullRules
      ]_vars
====
